---- MODULE Spec2Model ----
(***************************************************************************)
(* Verification model of the Obsidian knowledge-graph publisher:           *)
(*   - KnowledgeGraphService (src/src/knowledge-graph-service.ts)           *)
(*   - KnowledgeGraphPlugin  (main.ts, src/unnamed/part_001)                *)
(*   - TagManager            (src/src/tag-manager.ts)                       *)
(* The specifications share the variables: SpecCompile and SpecPublish     *)
(* drive the service, SpecPlugin the plugin's publish commands,            *)
(* SpecTagCache the tag index and its cache, SpecTagRewrite renameTag and  *)
(* deleteTag.                                                              *)
(***************************************************************************)
EXTENDS Integers, Sequences, FiniteSets, TLC

VARIABLES
    settings,        \* KnowledgeGraphSettings object shared by plugin and service
    initialized,     \* KnowledgeGraphService.initialized
    walletClient,    \* KnowledgeGraphService.walletClient
    nextId,          \* next identifier handed out by the GRC-20 library
    graphCalls,      \* calls made to Graph.createProperty/Type/Entity/Relation so far
    compileCount,    \* number of createKnowledgeEntities calls so far
    lastCompile,     \* the last createKnowledgeEntities call: its note, the toggles it
                     \* read, the library call counts before it, whether it repeats
                     \* the call before it
    entities,        \* entities returned by the last createKnowledgeEntities call
    relations,       \* relations returned by the last createKnowledgeEntities call
    opLog,           \* the shared ops array of the last createKnowledgeEntities call
    pubCalls,        \* external calls made by the last publishToKnowledgeGraph call
    pubResult,       \* its outcome: returned value or the error thrown
    pubInput,        \* its arguments and the service state it started in
    submittedOps,    \* the ops handed to Ipfs.publishEdit by it
    statusBar,       \* text of the plugin's status bar item
    notices,         \* last Notice shown by the plugin
    ioLog,           \* I/O performed by the last plugin command
    lastCommand,     \* the last plugin command and whether settings were valid
    statusTrail,     \* the status bar texts set by the last plugin command, in order
    lastEnvs,        \* the notes the last plugin command published, in order, each
                     \* with the outcome of its awaited calls
    now,             \* Date.now()
    ticks,           \* number of times the clock was advanced
    vault,           \* vault.getMarkdownFiles(): note index -> raw content
    tagCache,        \* TagManager.tagCache, in Map insertion order
    lastCacheUpdate, \* TagManager.lastCacheUpdate
    lastOp,          \* the last TagManager operation: query or mutation
    mutCount,        \* number of renameTag/deleteTag calls so far
    lastQuery,       \* observation of the last tag query
    lastMutation,    \* observation of the last renameTag/deleteTag call
    timers,          \* the pending timers of the runtime: id, file, time due
    publishTimer,    \* KnowledgeGraphPlugin.publishTimer: id of the last timer set
    nextTimerId,     \* the id setTimeout returns next
    autoLog,         \* the auto-publish triggers and the publishes fired by timers
    lastEvent,       \* the event whose handler ran last
    relNotes,        \* the NoteData list handed to findNoteRelationships
    relationships,   \* whether findNoteRelationships was called, and what it returned
    noteFiles,       \* the files handed to the NoteProcessor, with text and metadata
    noteResults,     \* the last NoteProcessor call and what it returned
    initCalls,       \* the initialize() calls in flight: where each one stands
    walletCreations, \* number of wallet clients getSmartAccountWalletClient has made
    tasks            \* the TagManager calls in flight: where each one stands

compileVars == <<nextId, graphCalls, compileCount, lastCompile, entities, relations, opLog>>
publishVars == <<initialized, walletClient, pubCalls, pubResult, pubInput,
                 submittedOps>>
kgVars == <<compileVars, publishVars>>
pluginVars == <<statusBar, notices, ioLog, lastCommand, statusTrail, lastEnvs>>
tagVars == <<vault, tagCache, lastCacheUpdate, lastOp, mutCount, lastQuery, lastMutation>>
clock == <<now, ticks>>
timerVars == <<timers, publishTimer, nextTimerId, autoLog, lastEvent>>
processorVars == <<relNotes, relationships, noteFiles, noteResults>>
asyncVars == <<initCalls, walletCreations, tasks>>
vars == <<settings, kgVars, pluginVars, clock, tagVars, timerVars, processorVars, asyncVars>>

----------------------------------------------------------------------------
(* Bounds of the model *)

MaxTags == 2
MaxLinks == 2
MaxCompiles == 2
MaxTicks == 2
MaxMutations == 1
MaxTriggers == 3
MaxNotes == 3
MaxFiles == 3

----------------------------------------------------------------------------
(* Generic helpers *)

\* the clock when the plugin loads; Date.now() is far past the epoch and past
\* CACHE_DURATION
StartTime == 5 * 60 * 1000 + 1000

SeqsUpTo(S, n) == UNION {[1..k -> S] : k \in 0..n}

----------------------------------------------------------------------------
(* The GRC-20 library as the service uses it.  Every call returns a fresh   *)
(* id and the ops that materialise it; st is the library's id counter, the  *)
(* calls made so far and the caller's shared ops array.                     *)

NoCalls == [property |-> 0, type |-> 0, entity |-> 0, relation |-> 0]

MkOp(op, id, name, refs) == [op |-> op, id |-> id, name |-> name, refs |-> refs]

GraphCreateProperty(st, name) ==
    [id |-> st.next,
     ops |-> <<MkOp("createProperty", st.next, name, <<>>)>>,
     st |-> [st EXCEPT !.next = @ + 1, !.calls.property = @ + 1]]

GraphCreateType(st, name, properties) ==
    [id |-> st.next,
     ops |-> <<MkOp("createType", st.next, name, properties)>>,
     st |-> [st EXCEPT !.next = @ + 1, !.calls.type = @ + 1]]

GraphCreateEntity(st, name, types, properties) ==
    [id |-> st.next,
     ops |-> <<MkOp("createEntity", st.next, name, types \o properties)>>,
     st |-> [st EXCEPT !.next = @ + 1, !.calls.entity = @ + 1]]

IdGenerate(st) == [id |-> st.next, st |-> [st EXCEPT !.next = @ + 1]]

GraphCreateRelation(st, id, fromEntity, toEntity, type) ==
    [ops |-> <<MkOp("createRelation", id, "", <<fromEntity, toEntity, type>>)>>,
     st |-> [st EXCEPT !.calls.relation = @ + 1]]

\* ops.push(...newOps) on the shared array
Push(st, newOps) == [st EXCEPT !.ops = @ \o newOps]

----------------------------------------------------------------------------
(* KnowledgeGraphService: the entity and relation builders.  Each returns   *)
(* the built item and the library/ops state after its calls.                *)

\* const x = v; F(x): v is evaluated once and F applied to its value
Let(v, F(_)) == CHOOSE y \in {F(x) : x \in {v}} : TRUE

createNoteEntity(noteData, st) ==
    Let(GraphCreateProperty(st, "Title"), LAMBDA title :
    Let(GraphCreateProperty(Push(title.st, title.ops), "Content"), LAMBDA content :
    Let(GraphCreateProperty(Push(content.st, content.ops), "Created Date"), LAMBDA created :
    Let(GraphCreateProperty(Push(created.st, created.ops), "Modified Date"), LAMBDA modified :
    Let(GraphCreateProperty(Push(modified.st, modified.ops), "File Path"), LAMBDA path :
    Let(<<title.id, content.id, created.id, modified.id, path.id>>, LAMBDA props :
    Let(GraphCreateType(Push(path.st, path.ops), "Obsidian Note", props), LAMBDA noteType :
    Let(GraphCreateEntity(Push(noteType.st, noteType.ops), noteData.title,
                          <<noteType.id>>, props), LAMBDA note :
        [item |-> [id |-> note.id, type |-> "note", name |-> noteData.title,
                   ops |-> title.ops \o content.ops \o created.ops \o modified.ops
                           \o path.ops \o noteType.ops \o note.ops],
         st |-> Push(note.st, note.ops)]))))))))

createTagEntityInterned(tag, st) ==
    \* mutant: reuses the "Tag Name" property and "Obsidian Tag" type once created
    IF \E k \in 1..Len(st.ops) : st.ops[k].name = "Obsidian Tag"
    THEN Let(CHOOSE k \in 1..Len(st.ops) : st.ops[k].name = "Tag Name", LAMBDA p :
         Let(CHOOSE k \in 1..Len(st.ops) : st.ops[k].name = "Obsidian Tag", LAMBDA t :
         Let(GraphCreateEntity(st, tag, <<st.ops[t].id>>, <<st.ops[p].id>>), LAMBDA ent :
             [item |-> [id |-> ent.id, type |-> "tag", name |-> tag, ops |-> ent.ops],
              st |-> Push(ent.st, ent.ops)])))
    ELSE Let(GraphCreateProperty(st, "Tag Name"), LAMBDA name :
         Let(GraphCreateType(Push(name.st, name.ops), "Obsidian Tag", <<name.id>>),
             LAMBDA tagType :
         Let(GraphCreateEntity(Push(tagType.st, tagType.ops), tag, <<tagType.id>>,
                               <<name.id>>), LAMBDA ent :
             [item |-> [id |-> ent.id, type |-> "tag", name |-> tag,
                        ops |-> name.ops \o tagType.ops \o ent.ops],
              st |-> Push(ent.st, ent.ops)])))

createTagEntity(tag, st) ==
    Let(GraphCreateProperty(st, "Tag Name"), LAMBDA name :
    Let(GraphCreateType(Push(name.st, name.ops), "Obsidian Tag", <<name.id>>),
        LAMBDA tagType :
    Let(GraphCreateEntity(Push(tagType.st, tagType.ops), tag, <<tagType.id>>,
                          <<name.id>>), LAMBDA ent :
        [item |-> [id |-> ent.id, type |-> "tag", name |-> tag,
                   ops |-> name.ops \o tagType.ops \o ent.ops],
         st |-> Push(ent.st, ent.ops)])))

createLinkEntity(link, st) ==
    Let(GraphCreateProperty(st, "Link Target"), LAMBDA prop :
    Let(GraphCreateType(Push(prop.st, prop.ops), "Obsidian Link", <<prop.id>>),
        LAMBDA linkType :
    Let(GraphCreateEntity(Push(linkType.st, linkType.ops), link, <<linkType.id>>,
                          <<prop.id>>), LAMBDA ent :
        [item |-> [id |-> ent.id, type |-> "link", name |-> link,
                   ops |-> prop.ops \o linkType.ops \o ent.ops],
         st |-> Push(ent.st, ent.ops)])))

createTagRelationInstanceFirst(noteId, tagId, st) ==
    \* mutant: the returned ops list the relation before its relation type
    Let(GraphCreateType(st, "Has Tag Relation", <<>>), LAMBDA hasTag :
    Let(IdGenerate(Push(hasTag.st, hasTag.ops)), LAMBDA relId :
    Let(GraphCreateRelation(relId.st, relId.id, noteId, tagId, hasTag.id), LAMBDA rel :
        [item |-> [id |-> relId.id, type |-> "has-tag", fromEntity |-> noteId,
                   toEntity |-> tagId, ops |-> rel.ops \o hasTag.ops],
         st |-> Push(rel.st, rel.ops)])))

createTagRelation(noteId, tagId, st) ==
    Let(GraphCreateType(st, "Has Tag Relation", <<>>), LAMBDA hasTag :
    Let(IdGenerate(Push(hasTag.st, hasTag.ops)), LAMBDA relId :
    Let(GraphCreateRelation(relId.st, relId.id, noteId, tagId, hasTag.id), LAMBDA rel :
        [item |-> [id |-> relId.id, type |-> "has-tag", fromEntity |-> noteId,
                   toEntity |-> tagId, ops |-> hasTag.ops \o rel.ops],
         st |-> Push(rel.st, rel.ops)])))

createLinkRelationSwapped(noteId, linkId, st) ==
    \* mutant: the relation runs from the link entity to the note
    Let(GraphCreateType(st, "Links To Relation", <<>>), LAMBDA linksTo :
    Let(IdGenerate(Push(linksTo.st, linksTo.ops)), LAMBDA relId :
    Let(GraphCreateRelation(relId.st, relId.id, linkId, noteId, linksTo.id), LAMBDA rel :
        [item |-> [id |-> relId.id, type |-> "links-to", fromEntity |-> linkId,
                   toEntity |-> noteId, ops |-> linksTo.ops \o rel.ops],
         st |-> Push(rel.st, rel.ops)])))

createLinkRelation(noteId, linkId, st) ==
    Let(GraphCreateType(st, "Links To Relation", <<>>), LAMBDA linksTo :
    Let(IdGenerate(Push(linksTo.st, linksTo.ops)), LAMBDA relId :
    Let(GraphCreateRelation(relId.st, relId.id, noteId, linkId, linksTo.id), LAMBDA rel :
        [item |-> [id |-> relId.id, type |-> "links-to", fromEntity |-> noteId,
                   toEntity |-> linkId, ops |-> linksTo.ops \o rel.ops],
         st |-> Push(rel.st, rel.ops)])))

\* for (const tag of noteData.tags) { createTagEntity; push; createTagRelation; push }
RECURSIVE tagLoop(_, _, _)
tagLoop(tags, noteId, acc) ==
    IF tags = <<>> THEN acc
    ELSE Let(createTagEntity(Head(tags), acc.st), LAMBDA tagEntity :
         Let(createTagRelation(noteId, tagEntity.item.id, tagEntity.st), LAMBDA tagRelation :
         Let([entities  |-> Append(acc.entities, tagEntity.item),
              relations |-> Append(acc.relations, tagRelation.item),
              st        |-> tagRelation.st], LAMBDA next :
             tagLoop(Tail(tags), noteId, next))))

\* for (const link of noteData.links) { createLinkEntity; push; createLinkRelation; push }
RECURSIVE linkLoop(_, _, _)
linkLoop(links, noteId, acc) ==
    IF links = <<>> THEN acc
    ELSE Let(createLinkEntity(Head(links), acc.st), LAMBDA linkEntity :
         Let(createLinkRelation(noteId, linkEntity.item.id, linkEntity.st),
             LAMBDA linkRelation :
         Let([entities  |-> Append(acc.entities, linkEntity.item),
              relations |-> Append(acc.relations, linkRelation.item),
              st        |-> linkRelation.st], LAMBDA next :
             linkLoop(Tail(links), noteId, next))))

\* first occurrences of s, in order
Dedup(s) ==
    LET keep == {k \in 1..Len(s) : \A j \in 1..(k - 1) : s[j] # s[k]}
        Rank(k) == Cardinality({j \in keep : j <= k})
    IN [r \in 1..Cardinality(keep) |-> s[CHOOSE k \in keep : Rank(k) = r]]

createKnowledgeEntitiesUniqueLinks(noteData, cfg, st0) ==
    \* mutant: one link entity per distinct target instead of one per list entry
    Let(createNoteEntity(noteData, st0), LAMBDA noteEntity :
    Let([entities |-> <<noteEntity.item>>, relations |-> <<>>, st |-> noteEntity.st],
        LAMBDA a0 :
    Let(IF cfg.includeTags /\ Len(noteData.tags) > 0
        THEN tagLoop(noteData.tags, noteEntity.item.id, a0) ELSE a0, LAMBDA a1 :
        IF cfg.includeLinks /\ Len(noteData.links) > 0
        THEN linkLoop(Dedup(noteData.links), noteEntity.item.id, a1) ELSE a1)))

\* noteData.links holds LinkData records; only link.target is read here, so the
\* model keeps the list of targets.
createKnowledgeEntities(noteData, cfg, st0) ==
    Let(createNoteEntity(noteData, st0), LAMBDA noteEntity :
    Let([entities |-> <<noteEntity.item>>, relations |-> <<>>, st |-> noteEntity.st],
        LAMBDA a0 :
    Let(IF cfg.includeTags /\ Len(noteData.tags) > 0
        THEN tagLoop(noteData.tags, noteEntity.item.id, a0) ELSE a0, LAMBDA a1 :
        IF cfg.includeLinks /\ Len(noteData.links) > 0
        THEN linkLoop(noteData.links, noteEntity.item.id, a1) ELSE a1)))

----------------------------------------------------------------------------
(* KnowledgeGraphService.initialize and publishToKnowledgeGraph.  env says  *)
(* which external call fails, if any is reached, and with what.             *)

NoError == <<>>

RejectingSteps == {"getSmartAccountWalletClient", "Ipfs.publishEdit", "fetch",
                   "response.json", "sendTransaction"}
ErrorMessages == {"execution reverted", "network unreachable"}
StatusTexts == {"Not Found", "Internal Server Error"}

PubEnvs ==
    {[fail |-> "none", error |-> "", statusText |-> "OK"]}
    \cup {[fail |-> f, error |-> e, statusText |-> "OK"] :
             f \in RejectingSteps, e \in ErrorMessages}
    \cup {[fail |-> "response.ok", error |-> "", statusText |-> s] : s \in StatusTexts}

\* svc = [initialized, walletClient]
initialize(svc, env) ==
    IF svc.initialized
    THEN [svc |-> svc, calls |-> <<>>, error |-> NoError]
    ELSE IF env.fail = "getSmartAccountWalletClient"
         THEN [svc |-> svc, calls |-> <<"getSmartAccountWalletClient">>,
               error |-> <<env.error>>]
         ELSE [svc |-> [initialized |-> TRUE, walletClient |-> "wallet"],
               calls |-> <<"getSmartAccountWalletClient">>, error |-> NoError]

RECURSIVE FlattenOps(_)
FlattenOps(items) ==
    IF items = <<>> THEN <<>>
    ELSE Head(items).ops \o FlattenOps(Tail(items))

collectAllOpsRelationsFirst(ents, rels) ==
    \* mutant: relation ops are collected before entity ops
    FlattenOps(rels) \o FlattenOps(ents)

\* entities.forEach(e => allOps.push(...e.ops)); relations.forEach(r => allOps.push(...r.ops))
collectAllOps(ents, rels) == FlattenOps(ents) \o FlattenOps(rels)

Thrown(svc, calls, ops, err) ==
    [svc |-> svc, calls |-> calls, ops |-> ops, status |-> "rejected", error |-> err,
     cid |-> "", txResult |-> ""]

publishToKnowledgeGraphNoOkCheck(ents, rels, svc, env) ==
    \* mutant: the response.ok check is missing, a refused calldata request goes on
    Let(initialize(svc, env), LAMBDA init :
    Let(collectAllOps(ents, rels), LAMBDA allOps :
    LET c1 == init.calls \o <<"Ipfs.publishEdit">>
        c2 == init.calls \o <<"Ipfs.publishEdit", "fetch">>
        c3 == init.calls \o <<"Ipfs.publishEdit", "fetch", "response.json">>
        c4 == init.calls \o <<"Ipfs.publishEdit", "fetch", "response.json",
                               "sendTransaction">>
    IN IF init.error # NoError THEN Thrown(init.svc, init.calls, <<>>, init.error)
       ELSE IF env.fail = "Ipfs.publishEdit" THEN Thrown(init.svc, c1, allOps, <<env.error>>)
       ELSE IF env.fail = "fetch" THEN Thrown(init.svc, c2, allOps, <<env.error>>)
       ELSE IF env.fail = "response.json" THEN Thrown(init.svc, c3, allOps, <<env.error>>)
       ELSE IF env.fail = "sendTransaction" THEN Thrown(init.svc, c4, allOps, <<env.error>>)
       ELSE [svc |-> init.svc, calls |-> c4, ops |-> allOps, status |-> "resolved",
             error |-> NoError, cid |-> "cid", txResult |-> "tx"]))

publishToKnowledgeGraph(ents, rels, svc, env) ==
    Let(initialize(svc, env), LAMBDA init :
    Let(collectAllOps(ents, rels), LAMBDA allOps :
    LET c1 == init.calls \o <<"Ipfs.publishEdit">>
        c2 == init.calls \o <<"Ipfs.publishEdit", "fetch">>
        c3 == init.calls \o <<"Ipfs.publishEdit", "fetch", "response.json">>
        c4 == init.calls \o <<"Ipfs.publishEdit", "fetch", "response.json",
                               "sendTransaction">>
    IN IF init.error # NoError THEN Thrown(init.svc, init.calls, <<>>, init.error)
       ELSE IF env.fail = "Ipfs.publishEdit" THEN Thrown(init.svc, c1, allOps, <<env.error>>)
       ELSE IF env.fail = "fetch" THEN Thrown(init.svc, c2, allOps, <<env.error>>)
       ELSE IF env.fail = "response.ok"
            THEN Thrown(init.svc, c2, allOps, <<"Failed to get calldata: ", env.statusText>>)
       ELSE IF env.fail = "response.json" THEN Thrown(init.svc, c3, allOps, <<env.error>>)
       ELSE IF env.fail = "sendTransaction" THEN Thrown(init.svc, c4, allOps, <<env.error>>)
       ELSE [svc |-> init.svc, calls |-> c4, ops |-> allOps, status |-> "resolved",
             error |-> NoError, cid |-> "cid", txResult |-> "tx"]))

----------------------------------------------------------------------------
(* Inputs *)

Titles == {"Test Note"}
NoteTags == {"ai", "research"}
LinkTargets == {"Related Note", "Other"}

DistinctSeqs(S, n) == {s \in SeqsUpTo(S, n) : \A i, j \in 1..Len(s) : s[i] = s[j] => i = j}

\* NoteData as processNote builds it: tags are duplicate-free, links are not
Notes == [title : Titles, tags : DistinctSeqs(NoteTags, MaxTags),
          links : SeqsUpTo(LinkTargets, MaxLinks)]

EmptyNote == [title |-> "", tags |-> <<>>, links |-> <<>>]

DEFAULT_SETTINGS ==
    [privateKey |-> "", spaceId |-> "", autoPublish |-> FALSE, includeTags |-> TRUE,
     includeLinks |-> TRUE, excludedFolders |-> {}, lastSyncTimestamp |-> 0]

Toggles(cfg) == [includeTags |-> cfg.includeTags, includeLinks |-> cfg.includeLinks]

----------------------------------------------------------------------------
(* Initial state: the plugin has loaded with default settings, nothing has  *)
(* been compiled or published, the tag cache is empty.                      *)

InitService ==
    /\ initialized = FALSE
    /\ walletClient = "undefined"
    /\ nextId = 1
    /\ graphCalls = NoCalls
    /\ compileCount = 0
    /\ lastCompile = [note |-> EmptyNote, includeTags |-> FALSE, includeLinks |-> FALSE,
                      callsBefore |-> NoCalls, repeated |-> FALSE]
    /\ entities = <<>>
    /\ relations = <<>>
    /\ opLog = <<>>
    /\ pubCalls = <<>>
    /\ pubResult = [status |-> "none", error |-> NoError, cid |-> "", txResult |-> ""]
    /\ pubInput = [entities |-> <<>>, relations |-> <<>>, initialized |-> FALSE,
                   env |-> [fail |-> "none", error |-> "", statusText |-> "OK"]]
    /\ submittedOps = <<>>

----------------------------------------------------------------------------
(* Actions of the service *)

\* settings tab: 'Include Tags' toggle
SetIncludeTags(b) ==
    /\ settings.includeTags # b
    /\ settings' = [settings EXCEPT !.includeTags = b]
    /\ UNCHANGED <<kgVars, pluginVars, clock, tagVars, timerVars, processorVars, asyncVars>>

\* settings tab: 'Include Links' toggle
SetIncludeLinks(b) ==
    /\ settings.includeLinks # b
    /\ settings' = [settings EXCEPT !.includeLinks = b]
    /\ UNCHANGED <<kgVars, pluginVars, clock, tagVars, timerVars, processorVars, asyncVars>>

\* one call of createKnowledgeEntities(noteData)
Compile(noteData) ==
    /\ compileCount < MaxCompiles
    /\ \E r \in {createKnowledgeEntities(noteData, settings,
                    [ops |-> <<>>, next |-> nextId, calls |-> graphCalls])} :
          /\ entities' = r.entities
          /\ relations' = r.relations
          /\ opLog' = r.st.ops
          /\ nextId' = r.st.next
          /\ graphCalls' = r.st.calls
    /\ compileCount' = compileCount + 1
    /\ lastCompile' = [note |-> noteData,
                       includeTags |-> settings.includeTags,
                       includeLinks |-> settings.includeLinks,
                       callsBefore |-> graphCalls,
                       repeated |-> /\ compileCount > 0
                                    /\ lastCompile.note = noteData
                                    /\ lastCompile.includeTags = settings.includeTags
                                    /\ lastCompile.includeLinks = settings.includeLinks]
    /\ UNCHANGED <<settings, publishVars, pluginVars, clock, tagVars, timerVars, processorVars, asyncVars>>

\* one call of publishToKnowledgeGraph(entities, relations); compiled is the result of
\* a createKnowledgeEntities call, as publishNote passes it
Publish(compiled, env) ==
    /\ \E r \in {publishToKnowledgeGraph(compiled.entities, compiled.relations,
                    [initialized |-> initialized, walletClient |-> walletClient], env)} :
          /\ pubInput' = [entities |-> compiled.entities, relations |-> compiled.relations,
                          initialized |-> initialized, env |-> env]
          /\ pubCalls' = r.calls
          /\ pubResult' = [status |-> r.status, error |-> r.error, cid |-> r.cid,
                           txResult |-> r.txResult]
          /\ submittedOps' = r.ops
          /\ initialized' = r.svc.initialized
          /\ walletClient' = r.svc.walletClient
    /\ UNCHANGED <<settings, compileVars, pluginVars, clock, tagVars, timerVars, processorVars, asyncVars>>

----------------------------------------------------------------------------
(* KnowledgeGraphPlugin: publishNote and publishAllNotes.  A path is the    *)
(* list of its characters.  p is the plugin: its settings, status bar, last *)
(* notice, the service, and io, the I/O calls made by the running command.  *)

NotePath == <<"n", ".", "m", "d">>
PrivatePath == <<"p", "/", "x", ".", "m", "d">>
PluginFiles == <<NotePath, PrivatePath>>
ExcludedFolderChoices == {{}, {<<"p", "/">>}, {<<"x">>}}
PrivateKeys == {"", "0xkey"}
SpaceIds == {"", "space-1"}

\* what processNote extracts from a file of the vault
processNote(file) ==
    IF file = NotePath
    THEN [title |-> "n", tags |-> <<"ai">>, links |-> <<"Other">>]
    ELSE [title |-> "x", tags |-> <<>>, links |-> <<>>]

\* what can go wrong while one note is published
NoteEnvs ==
    {[fail |-> f, error |-> IF f = "none" THEN "" ELSE "execution reverted",
      statusText |-> "OK"] :
        f \in {"none", "processNote", "createKnowledgeEntities",
               "getSmartAccountWalletClient", "sendTransaction", "saveSettings"}}
    \cup {[fail |-> "response.ok", error |-> "", statusText |-> "Not Found"]}

\* the outcomes tried for the notes of a batch
BatchEnvs ==
    {env \in NoteEnvs : env.fail \in {"none", "processNote", "sendTransaction", "saveSettings"}}

NoNotice == [text |-> "", detail |-> <<>>, published |-> 0, errors |-> 0]
Notice(text, detail) == [text |-> text, detail |-> detail, published |-> 0, errors |-> 0]

Io(call, file) == [call |-> call, file |-> file]

RECURSIVE IoCalls(_)
\* the external calls of the service as entries of the command's I/O log
IoCalls(calls) ==
    IF calls = <<>> THEN <<>> ELSE <<Io(Head(calls), <<>>)>> \o IoCalls(Tail(calls))

validateSettingsKeyOnly(cfg) ==
    \* mutant: the space id is not checked
    IF cfg.privateKey = ""
    THEN [ok |-> FALSE, notice |-> "Please configure your private key in settings"]
    ELSE [ok |-> TRUE, notice |-> ""]

validateSettings(cfg) ==
    IF cfg.privateKey = ""
    THEN [ok |-> FALSE, notice |-> "Please configure your private key in settings"]
    ELSE IF cfg.spaceId = ""
         THEN [ok |-> FALSE, notice |-> "Please configure your space ID in settings"]
         ELSE [ok |-> TRUE, notice |-> ""]

\* catch (error) { new Notice(...); statusBarItem.setText('KG: Error') }
publishNoteCatch(p, error) ==
    [p EXCEPT !.notices = Notice("Error publishing note", error),
              !.statusBar = "KG: Error",
              !.texts = Append(@, "KG: Error")]

\* the try block of publishNote, from processNote on
publishNoteTry(p, file, env, t) ==
    IF env.fail = "processNote" THEN publishNoteCatch(p, <<env.error>>)
    ELSE IF env.fail = "createKnowledgeEntities"
    THEN publishNoteCatch([p EXCEPT !.io = Append(@, Io("createKnowledgeEntities", file))],
                          <<env.error>>)
    ELSE
    Let(createKnowledgeEntities(processNote(file), p.settings,
                                [ops |-> <<>>, next |-> 1, calls |-> NoCalls]),
        LAMBDA compiled :
    Let(publishToKnowledgeGraph(compiled.entities, compiled.relations, p.svc, env),
        LAMBDA r :
    Let([p EXCEPT !.svc = r.svc,
                  !.io = @ \o <<Io("createKnowledgeEntities", file)>> \o IoCalls(r.calls)],
        LAMBDA p1 :
        IF r.status = "rejected" THEN publishNoteCatch(p1, r.error)
        ELSE Let([p1 EXCEPT !.notices = Notice("Successfully published", file),
                            !.statusBar = "KG: Ready",
                            !.texts = Append(@, "KG: Ready"),
                            !.settings.lastSyncTimestamp = t,
                            !.io = @ \o <<Io("saveSettings", <<>>)>>],
                 LAMBDA p2 :
                 IF env.fail = "saveSettings"
                 THEN publishNoteCatch(p2, <<env.error>>) ELSE p2))))

publishNote(p, file, env, t) ==
    Let(validateSettings(p.settings), LAMBDA v :
        IF ~v.ok THEN [p EXCEPT !.notices = Notice(v.notice, <<>>)]
        ELSE Let([p EXCEPT !.statusBar = "KG: Publishing...",
                           !.texts = Append(@, "KG: Publishing..."),
                           !.io = @ \o <<Io("processNote", file)>>],
                 LAMBDA p0 : publishNoteTry(p0, file, env, t)))

StartsWithAnywhere(path, prefix) ==
    \* mutant: the folder is looked for anywhere in the path
    \E s \in 0..(Len(path) - Len(prefix)) :
        \A k \in 1..Len(prefix) : path[s + k] = prefix[k]

StartsWith(path, prefix) ==
    /\ Len(prefix) <= Len(path)
    /\ \A k \in 1..Len(prefix) : path[k] = prefix[k]

\* files.filter(file => !excludedFolders.some(folder => file.path.startsWith(folder)))
RECURSIVE filterFiles(_, _)
filterFiles(files, excludedFolders) ==
    IF files = <<>> THEN <<>>
    ELSE IF \E folder \in excludedFolders : StartsWith(Head(files), folder)
         THEN filterFiles(Tail(files), excludedFolders)
         ELSE <<Head(files)>> \o filterFiles(Tail(files), excludedFolders)

\* for (const file of filteredFiles) { try { await publishNote(file); published++ } ... }
\* publishNote resolves on every path, so the catch branch (errors++) is never taken.
RECURSIVE publishLoopStopOnError(_, _, _, _)
publishLoopStopOnError(acc, files, envs, t) ==
    \* mutant: the loop ends at the first note whose publish failed
    IF files = <<>> \/ acc.p.statusBar = "KG: Error" THEN acc
    ELSE Let([p |-> publishNote(acc.p, Head(files), envs[Head(files)], t),
              published |-> acc.published + 1, errors |-> acc.errors],
             LAMBDA next : publishLoopStopOnError(next, Tail(files), envs, t))

RECURSIVE publishLoop(_, _, _, _)
publishLoop(acc, files, envs, t) ==
    IF files = <<>> THEN acc
    ELSE Let([p |-> publishNote(acc.p, Head(files), envs[Head(files)], t),
              published |-> acc.published + 1, errors |-> acc.errors],
             LAMBDA next : publishLoop(next, Tail(files), envs, t))

publishAllNotes(p, envs, t) ==
    Let(validateSettings(p.settings), LAMBDA v :
        IF ~v.ok THEN [p EXCEPT !.notices = Notice(v.notice, <<>>)]
        ELSE Let([p EXCEPT !.io = @ \o <<Io("getMarkdownFiles", <<>>)>>], LAMBDA p0 :
             Let(publishLoop([p |-> p0, published |-> 0, errors |-> 0],
                             filterFiles(PluginFiles, p0.settings.excludedFolders),
                             envs, t), LAMBDA done :
                 [done.p EXCEPT !.notices = [text |-> "Published notes", detail |-> <<>>,
                                             published |-> done.published,
                                             errors |-> done.errors]])))

\* the plugin as the state holds it, with an empty I/O log for the command that starts
ThePlugin ==
    [settings |-> settings, statusBar |-> statusBar, notices |-> notices, io |-> <<>>,
     texts |-> <<>>,
     svc |-> [initialized |-> initialized, walletClient |-> walletClient]]

\* what the command that starts finds: the two required settings, the excluded
\* folders, the status bar text, the last sync time and the clock
CommandStart(name) ==
    [name |-> name, privateKey |-> settings.privateKey, spaceId |-> settings.spaceId,
     excludedFolders |-> settings.excludedFolders, at |-> now,
     statusBar |-> statusBar, lastSyncTimestamp |-> settings.lastSyncTimestamp]

\* the notes a command publishes, in order, each with the outcome of its awaited calls
Attempts(files, envs) ==
    IF ~validateSettings(settings).ok THEN <<>>
    ELSE [k \in 1..Len(files) |-> [file |-> files[k], env |-> envs[files[k]]]]

StorePlugin(p) ==
    /\ settings' = p.settings
    /\ statusBar' = p.statusBar
    /\ notices' = p.notices
    /\ ioLog' = p.io
    /\ statusTrail' = p.texts
    /\ initialized' = p.svc.initialized
    /\ walletClient' = p.svc.walletClient

\* publishNote(file), also reached from publishCurrentNote
PublishNote(file, env) ==
    /\ \E p \in {publishNote(ThePlugin, file, env, now)} : StorePlugin(p)
    /\ lastCommand' = CommandStart("publishNote")
    /\ lastEnvs' = Attempts(<<file>>, [f \in {file} |-> env])
    /\ UNCHANGED <<compileVars, pubCalls, pubResult, pubInput, submittedOps, clock,
                   tagVars, timerVars, processorVars, asyncVars>>

\* the 'publish-all-notes' command
PublishAllNotes(envs) ==
    /\ \E p \in {publishAllNotes(ThePlugin, envs, now)} : StorePlugin(p)
    /\ lastCommand' = CommandStart("publishAllNotes")
    /\ lastEnvs' = Attempts(filterFiles(PluginFiles, settings.excludedFolders), envs)
    /\ UNCHANGED <<compileVars, pubCalls, pubResult, pubInput, submittedOps, clock,
                   tagVars, timerVars, processorVars, asyncVars>>

\* settings tab: 'Private Key'
SetPrivateKey(key) ==
    /\ settings.privateKey # key
    /\ settings' = [settings EXCEPT !.privateKey = key]
    /\ UNCHANGED <<kgVars, pluginVars, clock, tagVars, timerVars, processorVars, asyncVars>>

\* settings tab: 'Space ID'
SetSpaceId(id) ==
    /\ settings.spaceId # id
    /\ settings' = [settings EXCEPT !.spaceId = id]
    /\ UNCHANGED <<kgVars, pluginVars, clock, tagVars, timerVars, processorVars, asyncVars>>

\* settings tab: 'Excluded Folders'
SetExcludedFolders(folders) ==
    /\ settings.excludedFolders # folders
    /\ settings' = [settings EXCEPT !.excludedFolders = folders]
    /\ UNCHANGED <<kgVars, pluginVars, clock, tagVars, timerVars, processorVars, asyncVars>>

\* time passes
Tick(d) ==
    /\ ticks < MaxTicks
    /\ now' = now + d
    /\ ticks' = ticks + 1
    /\ UNCHANGED <<settings, kgVars, pluginVars, tagVars, timerVars, processorVars, asyncVars>>

\* settings tab: 'Auto-publish'
SetAutoPublish(b) ==
    /\ settings.autoPublish # b
    /\ settings' = [settings EXCEPT !.autoPublish = b]
    /\ UNCHANGED <<kgVars, pluginVars, clock, tagVars, timerVars, processorVars, asyncVars>>

\* the delay of schedulePublish, in ms
PUBLISH_DELAY == 5000

\* rt is the timer state: the pending timers, the plugin's handle, the next id
TheTimers == [timers |-> timers, publishTimer |-> publishTimer, nextTimerId |-> nextTimerId]

schedulePublishNoClear(rt, file, t) ==
    \* mutant: the pending timer is not cleared
    [timers |-> rt.timers \cup {[id |-> rt.nextTimerId, file |-> file,
                                  fireAt |-> t + PUBLISH_DELAY]},
     publishTimer |-> rt.nextTimerId,
     nextTimerId |-> rt.nextTimerId + 1]

\* clearTimeout(this.publishTimer); this.publishTimer = setTimeout(..., 5000)
schedulePublish(rt, file, t) ==
    [timers |-> {x \in rt.timers : x.id # rt.publishTimer}
                    \cup {[id |-> rt.nextTimerId, file |-> file,
                           fireAt |-> t + PUBLISH_DELAY]},
     publishTimer |-> rt.nextTimerId,
     nextTimerId |-> rt.nextTimerId + 1]

\* the handler of event called schedulePublish(file)
Scheduled(file, event) ==
    /\ \E rt \in {schedulePublish(TheTimers, file, now)} :
          /\ timers' = rt.timers
          /\ publishTimer' = rt.publishTimer
          /\ nextTimerId' = rt.nextTimerId
    /\ autoLog' = Append(autoLog, [kind |-> "trigger", file |-> file, at |-> now])
    /\ lastEvent' = event
    /\ UNCHANGED <<settings, kgVars, pluginVars, clock, tagVars, processorVars, asyncVars>>

\* vault.on('modify', file); the files of the model are markdown TFiles
OnModify(file) ==
    /\ nextTimerId <= MaxTriggers
    /\ IF settings.autoPublish THEN Scheduled(file, "modify") ELSE UNCHANGED vars

\* metadataCache.on('changed', file)
OnChanged(file) ==
    /\ nextTimerId <= MaxTriggers
    /\ IF settings.autoPublish THEN Scheduled(file, "changed") ELSE UNCHANGED vars

\* a timer set by schedulePublish is due: its callback runs publishNote(file)
TimerFire(env) ==
    \E x \in timers :
        /\ x.fireAt <= now
        /\ \E p \in {publishNote(ThePlugin, x.file, env, now)} : StorePlugin(p)
        /\ lastCommand' = CommandStart("publishNote")
        /\ lastEnvs' = Attempts(<<x.file>>, [f \in {x.file} |-> env])
        /\ timers' = timers \ {x}
        /\ autoLog' = Append(autoLog, [kind |-> "publish", file |-> x.file, at |-> now])
        /\ lastEvent' = "timer"
        /\ UNCHANGED <<compileVars, pubCalls, pubResult, pubInput, submittedOps, clock,
                       tagVars, publishTimer, nextTimerId, processorVars, asyncVars>>

\* time passes up to the moment the next timer is due
TimerTick(d) ==
    /\ \A x \in timers : now + d <= x.fireAt
    /\ Tick(d)

----------------------------------------------------------------------------
(* TagManager.  A string is the list of its characters, so that the regular *)
(* expressions of tag-manager.ts are computed on the raw note contents.     *)

CACHE_DURATION == 5 * 60 * 1000

\* \s and \w of the regular expressions
Whitespace == {" ", "\n", "\t", "\r"}
WordChars ==
    {"a", "b", "c", "d", "e", "f", "g", "h", "i", "j", "k", "l", "m",
     "n", "o", "p", "q", "r", "s", "t", "u", "v", "w", "x", "y", "z"}
    \cup {"A", "B", "C", "D", "E", "F", "G", "H", "I", "J", "K", "L", "M",
          "N", "O", "P", "Q", "R", "S", "T", "U", "V", "W", "X", "Y", "Z"}
    \cup {"0", "1", "2", "3", "4", "5", "6", "7", "8", "9", "_"}

\* least element of a set of positions, 0 when there is none
FirstIndex(S) == IF S = {} THEN 0 ELSE CHOOSE j \in S : \A k \in S : j <= k
LastIndex(S) == IF S = {} THEN 0 ELSE CHOOSE j \in S : \A k \in S : j >= k

\* the literal pat occurs in s at position i
MatchAt(s, i, pat) ==
    /\ i >= 1
    /\ i + Len(pat) - 1 <= Len(s)
    /\ \A k \in 1..Len(pat) : s[i + k - 1] = pat[k]

NoMatch == [matched |-> FALSE, group |-> <<>>]

\* while ((match = /#([^\s#]+)/g.exec(content)) !== null) tags.push(match[1])
RECURSIVE hashtagExec(_, _, _)
hashtagExec(content, lastIndex, tags) ==
    Let(FirstIndex({j \in lastIndex..(Len(content) - 1) :
                        /\ content[j] = "#"
                        /\ content[j + 1] \notin Whitespace \cup {"#"}}),
        LAMBDA j :
        IF j = 0 THEN tags
        ELSE Let(CHOOSE k \in (j + 1)..Len(content) :
                     /\ \A m \in (j + 1)..k : content[m] \notin Whitespace \cup {"#"}
                     /\ k = Len(content) \/ content[k + 1] \in Whitespace \cup {"#"},
                 LAMBDA k :
                 hashtagExec(content, k + 1, Append(tags, SubSeq(content, j + 1, k)))))

\* content.match(/^---\n([\s\S]*?)\n---/)
frontmatterMatch(content) ==
    IF ~MatchAt(content, 1, <<"-", "-", "-", "\n">>) THEN NoMatch
    ELSE Let(FirstIndex({p \in 5..Len(content) :
                             MatchAt(content, p, <<"\n", "-", "-", "-">>)}),
             LAMBDA p :
             IF p = 0 THEN NoMatch
             ELSE [matched |-> TRUE, group |-> SubSeq(content, 5, p - 1)])

\* /tags:\s*\[(.*?)\]/s tried at position i of the frontmatter
tagsMatchAt(frontmatter, i) ==
    IF ~MatchAt(frontmatter, i, <<"t", "a", "g", "s", ":">>) THEN NoMatch
    ELSE Let(FirstIndex({q \in (i + 5)..Len(frontmatter) :
                             frontmatter[q] \notin Whitespace}),
             LAMBDA q :
             IF q = 0 \/ frontmatter[q] # "[" THEN NoMatch
             ELSE Let(FirstIndex({r \in (q + 1)..Len(frontmatter) : frontmatter[r] = "]"}),
                      LAMBDA r :
                      IF r = 0 THEN NoMatch
                      ELSE [matched |-> TRUE, group |-> SubSeq(frontmatter, q + 1, r - 1)]))

\* frontmatter.match(/tags:\s*\[(.*?)\]/s): the leftmost match
tagsMatch(frontmatter) ==
    Let(FirstIndex({i \in 1..Len(frontmatter) : tagsMatchAt(frontmatter, i).matched}),
        LAMBDA i : IF i = 0 THEN NoMatch ELSE tagsMatchAt(frontmatter, i))

\* String.prototype.split(sep), sep one character
RECURSIVE Split(_, _)
Split(s, sep) ==
    Let(FirstIndex({i \in 1..Len(s) : s[i] = sep}), LAMBDA i :
        IF i = 0 THEN <<s>>
        ELSE <<SubSeq(s, 1, i - 1)>> \o Split(SubSeq(s, i + 1, Len(s)), sep))

\* String.prototype.trim()
Trim(s) ==
    Let(FirstIndex({i \in 1..Len(s) : s[i] \notin Whitespace}), LAMBDA a :
        IF a = 0 THEN <<>>
        ELSE SubSeq(s, a, LastIndex({i \in 1..Len(s) : s[i] \notin Whitespace})))

\* tag.trim().replace(/['"]/g, '')
cleanFrontmatterTag(tag) == SelectSeq(Trim(tag), LAMBDA c : c \notin {"'", "\""})

\* the tags of the frontmatter list: split(','), map, filter
frontmatterTags(content) ==
    Let(frontmatterMatch(content), LAMBDA fm :
        IF ~fm.matched THEN <<>>
        ELSE Let(tagsMatch(fm.group), LAMBDA tm :
                 IF ~tm.matched THEN <<>>
                 ELSE Let(Split(tm.group, ","), LAMBDA pieces :
                          SelectSeq([n \in 1..Len(pieces) |-> cleanFrontmatterTag(pieces[n])],
                                    LAMBDA tag : Len(tag) > 0))))

extractTagsFromContentAll(content) ==
    \* mutant: duplicates are kept
    hashtagExec(content, 1, <<>>) \o frontmatterTags(content)

\* return [...new Set(tags)]
extractTagsFromContent(content) ==
    Dedup(hashtagExec(content, 1, <<>>) \o frontmatterTags(content))

\* tags.includes(name)
Includes(tags, name) == \E n \in 1..Len(tags) : tags[n] = name

\* \b at the position between s[pos - 1] and s[pos]
WordBoundary(s, pos) ==
    (pos - 1 >= 1 /\ s[pos - 1] \in WordChars) # (pos <= Len(s) /\ s[pos] \in WordChars)

\* content.replace(new RegExp(`#${name}\\b`, 'g'), replacement), from position i on;
\* name holds no character that is special in a regular expression
RECURSIVE replaceTagPattern(_, _, _, _)
replaceTagPattern(s, i, name, replacement) ==
    IF i > Len(s) THEN <<>>
    ELSE IF MatchAt(s, i, <<"#">> \o name) /\ WordBoundary(s, i + 1 + Len(name))
         THEN replacement \o replaceTagPattern(s, i + 1 + Len(name), name, replacement)
         ELSE <<s[i]>> \o replaceTagPattern(s, i + 1, name, replacement)

\* .replace(/\s+/g, ' ')
RECURSIVE collapseWhitespace(_, _)
collapseWhitespace(s, i) ==
    IF i > Len(s) THEN <<>>
    ELSE IF s[i] \in Whitespace
         THEN IF i > 1 /\ s[i - 1] \in Whitespace
              THEN collapseWhitespace(s, i + 1)
              ELSE <<" ">> \o collapseWhitespace(s, i + 1)
         ELSE <<s[i]>> \o collapseWhitespace(s, i + 1)

\* renameTag: newContent
renameContent(content, oldName, newName) ==
    replaceTagPattern(content, 1, oldName, <<"#">> \o newName)

\* deleteTag: newContent
deleteContent(content, tagName) ==
    Let(replaceTagPattern(content, 1, tagName, <<>>), LAMBDA removed :
        Trim(collapseWhitespace(removed, 1)))

\* note contents
InlineNote ==
    <<"#", "a", " ", "x">>
FrontmatterNote ==
    <<"-", "-", "-", "\n", "t", "a", "g", "s", ":", " ", "[", "a", ",", " ",
      "b", "]", "\n", "-", "-", "-", "\n", "x">>
BothNote ==
    <<"-", "-", "-", "\n", "t", "a", "g", "s", ":", " ", "[", "'", "a", "'",
      "]", "\n", "-", "-", "-", "\n", "#", "a", " ", "#", "b">>
PlainNote ==
    <<"#", " ", "T", "\n", "x">>
PrefixNote ==
    <<"#", "a", "b", " ", "#", "a", "-", "b">>
MixedNote ==
    <<"#", "a", " ", " ", "#", "a", "-", "b", "\n", "#", "b", "#", "a">>

NoteContents == {InlineNote, FrontmatterNote, BothNote, PlainNote, PrefixNote, MixedNote}

TagNames == {<<"a">>, <<"b">>, <<"c">>}
TagPaths == <<"a.md", "b.md", "c.md">>

\* vaults of two notes, and the vault without notes
MkVault(contents) == [k \in 1..Len(contents) |-> [path |-> TagPaths[k], content |-> contents[k]]]
Vaults == {MkVault(<<c1, c2>>) : c1 \in NoteContents, c2 \in NoteContents} \cup {<<>>}
CacheVaults ==
    {MkVault(<<PlainNote, PlainNote>>), MkVault(<<InlineNote, FrontmatterNote>>),
     MkVault(<<BothNote, PlainNote>>)}

\* outcomes of vault.read / vault.modify per note: at most one note fails
ReadEnvs(files) ==
    {env \in [1..Len(files) -> {"ok", "read"}] :
        Cardinality({k \in 1..Len(files) : env[k] # "ok"}) <= 1}
MutationEnvs(files) ==
    {env \in [1..Len(files) -> {"ok", "read", "modify"}] :
        Cardinality({k \in 1..Len(files) : env[k] # "ok"}) <= 1}

HasTag(cache, tag) == \E n \in 1..Len(cache) : cache[n].name = tag

\* refreshTagCache, loop body for one tag: create the entry, count++, notes.push
addTag(cache, tag, path) ==
    Let(IF HasTag(cache, tag) THEN cache
        ELSE Append(cache, [name |-> tag, count |-> 0, notes |-> <<>>, description |-> ""]),
        LAMBDA c :
        [n \in 1..Len(c) |->
            IF c[n].name = tag
            THEN [c[n] EXCEPT !.count = @ + 1, !.notes = Append(@, path)]
            ELSE c[n]])

RECURSIVE addTags(_, _, _)
addTags(cache, tags, path) ==
    IF tags = <<>> THEN cache
    ELSE Let(addTag(cache, Head(tags), path), LAMBDA c : addTags(c, Tail(tags), path))

\* refreshTagCache: for (const file of files) { try { read; extract; index } catch {} }
RECURSIVE scanFiles(_, _, _, _)
scanFiles(files, k, env, cache) ==
    IF k > Len(files) THEN cache
    ELSE IF env[k] = "read" THEN scanFiles(files, k + 1, env, cache)
    ELSE Let(addTags(cache, extractTagsFromContent(files[k].content), files[k].path),
             LAMBDA c : scanFiles(files, k + 1, env, c))

Paths(files) == [k \in 1..Len(files) |-> files[k].path]

refreshTagCache(tm, t, env) ==
    IF t - tm.lastCacheUpdate < CACHE_DURATION /\ Len(tm.tagCache) > 0
    THEN [tm |-> tm, scanned |-> FALSE, reads |-> <<>>]
    ELSE [tm |-> [tm EXCEPT !.tagCache = scanFiles(tm.vault, 1, env, <<>>),
                            !.lastCacheUpdate = t],
          scanned |-> TRUE, reads |-> Paths(tm.vault)]

\* Array.prototype.sort((a, b) => b.count - a.count), stable
RECURSIVE sortByCount(_, _)
sortByCount(list, sorted) ==
    IF list = <<>> THEN sorted
    ELSE Let(Cardinality({n \in 1..Len(sorted) : sorted[n].count >= Head(list).count}),
             LAMBDA n :
             sortByCount(Tail(list),
                         SubSeq(sorted, 1, n) \o <<Head(list)>>
                             \o SubSeq(sorted, n + 1, Len(sorted))))

NewScan(files) == [files |-> files, updatedFiles |-> <<>>, reads |-> <<>>, writes |-> <<>>]

RECURSIVE renameLoopStopOnError(_, _, _, _, _)
renameLoopStopOnError(acc, k, oldName, newName, env) ==
    \* mutant: the try block encloses the loop, the first error ends it
    IF k > Len(acc.files) THEN acc
    ELSE Let([acc EXCEPT !.reads = Append(@, acc.files[k].path)], LAMBDA a0 :
         IF env[k] = "read" THEN a0
         ELSE IF ~Includes(extractTagsFromContent(a0.files[k].content), oldName)
              THEN renameLoopStopOnError(a0, k + 1, oldName, newName, env)
         ELSE Let([a0 EXCEPT !.writes = Append(@, a0.files[k].path)], LAMBDA a1 :
              IF env[k] = "modify" THEN a1
              ELSE Let([a1 EXCEPT
                           !.files[k].content = renameContent(@, oldName, newName),
                           !.updatedFiles = Append(@, a1.files[k].path)],
                       LAMBDA a2 : renameLoopStopOnError(a2, k + 1, oldName, newName, env))))

\* renameTag: for (const file of files) { try { ... } catch { console.error } }
\* reads and writes list the vault.read and vault.modify calls made
RECURSIVE renameLoop(_, _, _, _, _)
renameLoop(acc, k, oldName, newName, env) ==
    IF k > Len(acc.files) THEN acc
    ELSE Let([acc EXCEPT !.reads = Append(@, acc.files[k].path)], LAMBDA a0 :
         IF env[k] = "read" THEN renameLoop(a0, k + 1, oldName, newName, env)
         ELSE IF ~Includes(extractTagsFromContent(a0.files[k].content), oldName)
              THEN renameLoop(a0, k + 1, oldName, newName, env)
         ELSE Let([a0 EXCEPT !.writes = Append(@, a0.files[k].path)], LAMBDA a1 :
              IF env[k] = "modify" THEN renameLoop(a1, k + 1, oldName, newName, env)
              ELSE Let([a1 EXCEPT
                           !.files[k].content = renameContent(@, oldName, newName),
                           !.updatedFiles = Append(@, a1.files[k].path)],
                       LAMBDA a2 : renameLoop(a2, k + 1, oldName, newName, env))))

renameTagNoInvalidate(tm, oldName, newName, env) ==
    \* mutant: the cache is left as it is
    Let(renameLoop(NewScan(tm.vault), 1, oldName, newName, env), LAMBDA done :
        [tm |-> [tm EXCEPT !.vault = done.files],
         success |-> TRUE, updatedFiles |-> done.updatedFiles,
         reads |-> done.reads, writes |-> done.writes])

renameTag(tm, oldName, newName, env) ==
    Let(renameLoop(NewScan(tm.vault), 1, oldName, newName, env), LAMBDA done :
        [tm |-> [vault |-> done.files, tagCache |-> <<>>, lastCacheUpdate |-> 0],
         success |-> TRUE, updatedFiles |-> done.updatedFiles,
         reads |-> done.reads, writes |-> done.writes])

\* deleteTag: for (const file of files) { try { ... } catch { console.error } }
RECURSIVE deleteLoop(_, _, _, _)
deleteLoop(acc, k, tagName, env) ==
    IF k > Len(acc.files) THEN acc
    ELSE Let([acc EXCEPT !.reads = Append(@, acc.files[k].path)], LAMBDA a0 :
         IF env[k] = "read" THEN deleteLoop(a0, k + 1, tagName, env)
         ELSE IF ~Includes(extractTagsFromContent(a0.files[k].content), tagName)
              THEN deleteLoop(a0, k + 1, tagName, env)
         ELSE Let([a0 EXCEPT !.writes = Append(@, a0.files[k].path)], LAMBDA a1 :
              IF env[k] = "modify" THEN deleteLoop(a1, k + 1, tagName, env)
              ELSE Let([a1 EXCEPT
                           !.files[k].content = deleteContent(@, tagName),
                           !.updatedFiles = Append(@, a1.files[k].path)],
                       LAMBDA a2 : deleteLoop(a2, k + 1, tagName, env))))

deleteTag(tm, tagName, env) ==
    Let(deleteLoop(NewScan(tm.vault), 1, tagName, env), LAMBDA done :
        [tm |-> [vault |-> done.files, tagCache |-> <<>>, lastCacheUpdate |-> 0],
         success |-> TRUE, updatedFiles |-> done.updatedFiles,
         reads |-> done.reads, writes |-> done.writes])

TheTagManager == [vault |-> vault, tagCache |-> tagCache, lastCacheUpdate |-> lastCacheUpdate]

StoreTagManager(tm) ==
    /\ vault' = tm.vault
    /\ tagCache' = tm.tagCache
    /\ lastCacheUpdate' = tm.lastCacheUpdate

NoOperation == [kind |-> "none", at |-> 0, scanned |-> FALSE]

\* what is kept of a query: when it ran, whether refreshTagCache scanned, the notes
\* it read and failed to read, the operation before it, lastCacheUpdate as it found
\* it, and what it returned
Query(name, r, env, result) ==
    /\ StoreTagManager(r.tm)
    /\ lastQuery' = [kind |-> name, at |-> now, scanned |-> r.scanned, reads |-> r.reads,
                     failed |-> IF r.scanned
                                THEN {vault[k].path : k \in {n \in 1..Len(vault) : env[n] # "ok"}}
                                ELSE {},
                     prev |-> lastOp, refreshedAt |-> lastCacheUpdate, result |-> result]
    /\ lastOp' = [kind |-> "query", at |-> now, scanned |-> r.scanned]
    /\ UNCHANGED <<settings, kgVars, pluginVars, clock, timerVars, processorVars, asyncVars,
                   lastMutation, mutCount>>

GetAllTags(env) ==
    \E r \in {refreshTagCache(TheTagManager, now, env)} :
        Query("getAllTags", r, env, sortByCount(r.tm.tagCache, <<>>))

\* what is kept of a renameTag / deleteTag call: its arguments, the vault and the
\* cache it found, the per-note outcomes and what it returned
Mutation(name, oldName, newName, env, r) ==
    /\ StoreTagManager(r.tm)
    /\ lastMutation' = [kind |-> name, oldName |-> oldName, newName |-> newName,
                        env |-> env, before |-> vault, cached |-> Len(tagCache),
                        refreshedAt |-> lastCacheUpdate, success |-> r.success,
                        updatedFiles |-> r.updatedFiles, reads |-> r.reads,
                        writes |-> r.writes]
    /\ lastOp' = [kind |-> "mutation", at |-> now, scanned |-> FALSE]
    /\ mutCount' = mutCount + 1
    /\ UNCHANGED <<settings, kgVars, pluginVars, clock, timerVars, processorVars, asyncVars,
                   lastQuery>>

RenameTag(oldName, newName, env) ==
    /\ mutCount < MaxMutations
    /\ \E r \in {renameTag(TheTagManager, oldName, newName, env)} :
          Mutation("renameTag", oldName, newName, env, r)

DeleteTag(tagName, env) ==
    /\ mutCount < MaxMutations
    /\ \E r \in {deleteTag(TheTagManager, tagName, env)} :
          Mutation("deleteTag", tagName, <<>>, env, r)

----------------------------------------------------------------------------
(* NoteProcessor: relationships between notes *)

UpperCase ==
    <<"A", "B", "C", "D", "E", "F", "G", "H", "I", "J", "K", "L", "M",
      "N", "O", "P", "Q", "R", "S", "T", "U", "V", "W", "X", "Y", "Z">>
LowerCase ==
    <<"a", "b", "c", "d", "e", "f", "g", "h", "i", "j", "k", "l", "m",
      "n", "o", "p", "q", "r", "s", "t", "u", "v", "w", "x", "y", "z">>

\* content.toLowerCase()
toLowerCase(s) ==
    [k \in 1..Len(s) |->
        IF \E u \in 1..Len(UpperCase) : UpperCase[u] = s[k]
        THEN LowerCase[CHOOSE u \in 1..Len(UpperCase) : UpperCase[u] = s[k]]
        ELSE s[k]]

\* s.split(/\s+/): the pieces between maximal runs of whitespace, empty pieces at the
\* ends included
RECURSIVE splitWhitespace(_)
splitWhitespace(s) ==
    Let(FirstIndex({i \in 1..Len(s) : s[i] \in Whitespace}), LAMBDA i :
        IF i = 0 THEN <<s>>
        ELSE Let(FirstIndex({j \in (i + 1)..Len(s) : s[j] \notin Whitespace}), LAMBDA j :
                 <<SubSeq(s, 1, i - 1)>>
                     \o splitWhitespace(IF j = 0 THEN <<>> ELSE SubSeq(s, j, Len(s)))))

\* new Set(content.toLowerCase().split(/\s+/).filter(word => word.length > 3))
contentWords(content) ==
    Let(splitWhitespace(toLowerCase(content)), LAMBDA words :
        {words[k] : k \in {n \in 1..Len(words) : Len(words[n]) > 3}})

\* numbers of the strength field are kept as fractions num / den; 0 / 0 is NaN
Fraction(num, den) == [num |-> num, den |-> den]
One == Fraction(1, 1)

\* intersection.size / union.size
calculateContentSimilarity(content1, content2) ==
    Let(contentWords(content1), LAMBDA words1 :
    Let(contentWords(content2), LAMBDA words2 :
        Fraction(Cardinality(words1 \cap words2), Cardinality(words1 \cup words2))))

\* similarity > 0.3; a comparison with NaN is false
SimilarityThreshold == Fraction(3, 10)
GreaterThan(x, y) == x.den # 0 /\ y.den # 0 /\ x.num * y.den > y.num * x.den

Max(a, b) == IF a >= b THEN a ELSE b
Min(a, b) == IF a <= b THEN a ELSE b

Edge(note1, note2, type, strength) ==
    [source |-> note1.path, target |-> note2.path, type |-> type, strength |-> strength]

\* note1.links.some(link => link.target === note2.title) || the same the other way
hasDirectLink(note1, note2) ==
    \/ \E l \in 1..Len(note1.links) : note1.links[l].target = note2.title
    \/ \E l \in 1..Len(note2.links) : note2.links[l].target = note1.title

directLinkEdges(note1, note2) ==
    IF hasDirectLink(note1, note2) THEN <<Edge(note1, note2, "direct-link", One)>> ELSE <<>>

sharedTagsEdgesMin(note1, note2) ==
    \* mutant: the shared tags are divided by the shorter tag list
    Let(SelectSeq(note1.tags, LAMBDA tag : Includes(note2.tags, tag)), LAMBDA sharedTags :
        IF Len(sharedTags) > 0
        THEN <<Edge(note1, note2, "shared-tags",
                    Fraction(Len(sharedTags), Min(Len(note1.tags), Len(note2.tags))))>>
        ELSE <<>>)

\* sharedTags = note1.tags.filter(tag => note2.tags.includes(tag))
sharedTagsEdges(note1, note2) ==
    Let(SelectSeq(note1.tags, LAMBDA tag : Includes(note2.tags, tag)), LAMBDA sharedTags :
        IF Len(sharedTags) > 0
        THEN <<Edge(note1, note2, "shared-tags",
                    Fraction(Len(sharedTags), Max(Len(note1.tags), Len(note2.tags))))>>
        ELSE <<>>)

similarityEdges(note1, note2) ==
    Let(calculateContentSimilarity(note1.content, note2.content), LAMBDA similarity :
        IF GreaterThan(similarity, SimilarityThreshold)
        THEN <<Edge(note1, note2, "content-similarity", similarity)>>
        ELSE <<>>)

\* the body of the inner loop for notes[i] and notes[j]
pairEdges(note1, note2) ==
    directLinkEdges(note1, note2) \o sharedTagsEdges(note1, note2)
        \o similarityEdges(note1, note2)

\* for (let j = ...; j < notes.length; j++)
RECURSIVE innerLoop(_, _, _)
innerLoop(notes, i, j) ==
    IF j > Len(notes) THEN <<>>
    ELSE pairEdges(notes[i], notes[j]) \o innerLoop(notes, i, j + 1)

RECURSIVE outerLoopAllPairs(_, _)
outerLoopAllPairs(notes, i) ==
    \* mutant: the inner loop starts at the first note
    IF i > Len(notes) THEN <<>>
    ELSE innerLoop(notes, i, 1) \o outerLoopAllPairs(notes, i + 1)

\* for (let i = 0; i < notes.length; i++) for (let j = i + 1; ...)
RECURSIVE outerLoop(_, _)
outerLoop(notes, i) ==
    IF i > Len(notes) THEN <<>>
    ELSE innerLoop(notes, i, i + 1) \o outerLoop(notes, i + 1)

findNoteRelationships(notes) == outerLoop(notes, 1)

\* note contents: "Deep learning", "deep  nets a", "nets tags more", ""
DeepLearning ==
    <<"D", "e", "e", "p", " ", "l", "e", "a", "r", "n", "i", "n", "g">>
DeepNets ==
    <<"d", "e", "e", "p", " ", "\n", "n", "e", "t", "s", " ", "a">>
NetsTags ==
    <<"n", "e", "t", "s", " ", "t", "a", "g", "s", " ", "m", "o", "r", "e">>

\* the paths of the notes of a list, by position
RelationPaths == <<"a.md", "b.md", "c.md", "d.md", "e.md">>

Link(target) == [target |-> target]

NoteData(title, tags, links, content) ==
    [path |-> "", title |-> title, tags |-> tags, links |-> links, content |-> content]

\* the notes a list is made of: notes that differ in title and links, notes that
\* differ in tags (processNote returns tag lists without duplicates), notes that
\* differ in content
NoteChoices ==
    {NoteData(title, <<"x", "y">>, links, DeepLearning) :
         title \in {"A", "B"},
         links \in {<<>>, <<Link("B")>>, <<Link("B"), Link("A")>>}}
    \cup {NoteData("C", tags, <<>>, NetsTags) :
              tags \in {<<>>, <<"y", "x">>, <<"y", "z">>, <<"z">>}}
    \cup {NoteData("C", <<>>, <<>>, content) : content \in {DeepNets, <<>>}}

NoteLists ==
    UNION {{[k \in 1..n |-> [choice[k] EXCEPT !.path = RelationPaths[k]]] :
                choice \in [1..n -> NoteChoices]} : n \in 0..MaxNotes}

NotCalled == [called |-> FALSE, edges |-> <<>>]

\* noteProcessor.findNoteRelationships(notes)
FindNoteRelationships ==
    /\ ~relationships.called
    /\ relationships' = [called |-> TRUE, edges |-> findNoteRelationships(relNotes)]
    /\ UNCHANGED <<settings, kgVars, pluginVars, clock, tagVars, timerVars, asyncVars, relNotes,
                   noteFiles, noteResults>>

----------------------------------------------------------------------------
(* NoteProcessor: processNote *)

\* the line terminators of JavaScript regular expressions: what . does not match and
\* where ^ and $ match under the m flag
LineTerminators == {"\n", "\r"}

LineStart(s, i) == i = 1 \/ s[i - 1] \in LineTerminators

\* the position after the longest run of characters of s from i on that satisfy Ok
RunEnd(s, i, Ok(_)) ==
    Let(FirstIndex({j \in i..Len(s) : ~Ok(s[j])}), LAMBDA j :
        IF j = 0 THEN Len(s) + 1 ELSE j)

\* content.replace(/^---\n[\s\S]*?\n---\n/, ''): the block at the start of the text up
\* to the first closing line
removeFrontmatter(content) ==
    IF ~MatchAt(content, 1, <<"-", "-", "-", "\n">>) THEN content
    ELSE Let(FirstIndex({j \in 5..Len(content) :
                            MatchAt(content, j, <<"\n", "-", "-", "-", "\n">>)}),
             LAMBDA j :
             IF j = 0 THEN content ELSE SubSeq(content, j + 5, Len(content)))

\* s.replace(new RegExp(open + '([^c]+)' + close, 'g'), '$1') from position i on, where
\* close starts with the character c: the run of characters other than c after open
\* must be followed by close
RECURSIVE unwrap(_, _, _, _)
unwrap(s, i, open, close) ==
    IF i > Len(s) THEN <<>>
    ELSE IF MatchAt(s, i, open)
         THEN Let(RunEnd(s, i + Len(open), LAMBDA ch : ch # close[1]), LAMBDA e :
                  IF e > i + Len(open) /\ MatchAt(s, e, close)
                  THEN SubSeq(s, i + Len(open), e - 1)
                           \o unwrap(s, e + Len(close), open, close)
                  ELSE <<s[i]>> \o unwrap(s, i + 1, open, close))
         ELSE <<s[i]>> \o unwrap(s, i + 1, open, close)

\* .replace(/\[([^\]]+)\]\([^)]+\)/g, '$1')
RECURSIVE replaceMarkdownLinks(_, _)
replaceMarkdownLinks(s, i) ==
    IF i > Len(s) THEN <<>>
    ELSE IF s[i] = "["
         THEN Let(RunEnd(s, i + 1, LAMBDA ch : ch # "]"), LAMBDA e :
              Let(RunEnd(s, e + 2, LAMBDA ch : ch # ")"), LAMBDA f :
                  IF /\ e > i + 1
                     /\ MatchAt(s, e, <<"]", "(">>)
                     /\ f > e + 2
                     /\ f <= Len(s)
                  THEN SubSeq(s, i + 1, e - 1) \o replaceMarkdownLinks(s, f + 1)
                  ELSE <<s[i]>> \o replaceMarkdownLinks(s, i + 1)))
         ELSE <<s[i]>> \o replaceMarkdownLinks(s, i + 1)

\* .replace(/^#{1,6}\s+/gm, ''): one to six # at the start of a line and the white
\* space after them
RECURSIVE removeHeadingMarkers(_, _)
removeHeadingMarkers(s, i) ==
    IF i > Len(s) THEN <<>>
    ELSE IF LineStart(s, i) /\ s[i] = "#"
         THEN Let(RunEnd(s, i, LAMBDA ch : ch = "#"), LAMBDA e :
              Let(RunEnd(s, e, LAMBDA ch : ch \in Whitespace), LAMBDA f :
                  IF e - i <= 6 /\ f > e
                  THEN removeHeadingMarkers(s, f)
                  ELSE <<s[i]>> \o removeHeadingMarkers(s, i + 1)))
         ELSE <<s[i]>> \o removeHeadingMarkers(s, i + 1)

\* .replace(/#[\w-]+/g, '')
RECURSIVE removeHashtags(_, _)
removeHashtags(s, i) ==
    IF i > Len(s) THEN <<>>
    ELSE IF s[i] = "#"
         THEN Let(RunEnd(s, i + 1, LAMBDA ch : ch \in WordChars \cup {"-"}), LAMBDA e :
                  IF e > i + 1 THEN removeHashtags(s, e)
                  ELSE <<s[i]>> \o removeHashtags(s, i + 1))
         ELSE <<s[i]>> \o removeHashtags(s, i + 1)

\* .replace(/\n{3,}/g, '\n\n')
RECURSIVE collapseNewlines(_, _)
collapseNewlines(s, i) ==
    IF i > Len(s) THEN <<>>
    ELSE Let(RunEnd(s, i, LAMBDA ch : ch = "\n"), LAMBDA e :
             IF e - i >= 3 THEN <<"\n", "\n">> \o collapseNewlines(s, e)
             ELSE <<s[i]>> \o collapseNewlines(s, i + 1))

\* the steps of cleanContent after the frontmatter is removed, in their order
unwrapWikiLinks(s) == unwrap(s, 1, <<"[", "[">>, <<"]", "]">>)
unwrapBold(s) == unwrap(s, 1, <<"*", "*">>, <<"*", "*">>)
unwrapItalic(s) == unwrap(s, 1, <<"*">>, <<"*">>)
unwrapHighlight(s) == unwrap(s, 1, <<"=", "=">>, <<"=", "=">>)
unwrapStrikethrough(s) == unwrap(s, 1, <<"~", "~">>, <<"~", "~">>)

cleanContent(content) ==
    Let(removeFrontmatter(content), LAMBDA withoutFrontmatter :
    Let(unwrapWikiLinks(withoutFrontmatter), LAMBDA s1 :
    Let(replaceMarkdownLinks(s1, 1), LAMBDA s2 :
    Let(removeHeadingMarkers(s2, 1), LAMBDA s3 :
    Let(unwrapBold(s3), LAMBDA s4 :
    Let(unwrapItalic(s4), LAMBDA s5 :
    Let(unwrapHighlight(s5), LAMBDA s6 :
    Let(unwrapStrikethrough(s6), LAMBDA s7 :
    Let(removeHashtags(s7, 1), LAMBDA s8 :
        Trim(collapseNewlines(s8, 1)))))))))))

\* content.match(/^# (.+)$/m): the first line that starts with "# " and goes on with a
\* character; h1Match[1] is the rest of that line
h1Match(content) ==
    Let(FirstIndex({i \in 1..(Len(content) - 2) :
                        /\ LineStart(content, i)
                        /\ MatchAt(content, i, <<"#", " ">>)
                        /\ content[i + 2] \notin LineTerminators}),
        LAMBDA i :
        IF i = 0 THEN [found |-> FALSE, text |-> <<>>]
        ELSE [found |-> TRUE,
              text |-> SubSeq(content, i + 2,
                              RunEnd(content, i + 2,
                                     LAMBDA ch : ch \notin LineTerminators) - 1)])

\* metadata?.frontmatter?.title, falsy when the metadata, the frontmatter or the title
\* is missing or the title is the empty string
frontmatterTitle(metadata) ==
    IF metadata.present /\ metadata.frontmatter.present
    THEN metadata.frontmatter.title
    ELSE <<>>

extractTitleHeadingFirst(file, content) ==
    \* mutant: the heading is looked for before the frontmatter title
    IF h1Match(content).found THEN Trim(h1Match(content).text)
    ELSE IF frontmatterTitle(file.metadata) # <<>> THEN frontmatterTitle(file.metadata)
    ELSE file.basename

extractTitle(file, content) ==
    IF frontmatterTitle(file.metadata) # <<>> THEN frontmatterTitle(file.metadata)
    ELSE IF h1Match(content).found THEN Trim(h1Match(content).text)
    ELSE file.basename

\* tag.replace('#', ''): a string pattern replaces its first occurrence
stripHash(tag) ==
    Let(FirstIndex({i \in 1..Len(tag) : tag[i] = "#"}), LAMBDA i :
        IF i = 0 THEN tag ELSE SubSeq(tag, 1, i - 1) \o SubSeq(tag, i + 1, Len(tag)))

\* metadata.tags.forEach(tag => tags.push(tag.tag.replace('#', '')))
inlineTags(metadata) ==
    IF metadata.present
    THEN [k \in 1..Len(metadata.tags) |-> stripHash(metadata.tags[k].tag)]
    ELSE <<>>

\* the frontmatter tags: an array, of which the strings are taken, or one string
frontmatterTagList(metadata) ==
    IF ~(metadata.present /\ metadata.frontmatter.present) THEN <<>>
    ELSE Let(metadata.frontmatter.tags, LAMBDA fmTags :
         IF fmTags.kind = "array"
         THEN Let(SelectSeq(fmTags.items, LAMBDA tag : tag.type = "string"),
                  LAMBDA strings :
                  [k \in 1..Len(strings) |-> stripHash(strings[k].value)])
         ELSE IF fmTags.kind = "string" /\ fmTags.value # <<>>
              THEN <<stripHash(fmTags.value)>>
              ELSE <<>>)

\* return [...new Set(tags)]
extractTags(metadata) == Dedup(inlineTags(metadata) \o frontmatterTagList(metadata))

\* the internal links, then the embeds
extractLinks(metadata) ==
    IF metadata.present
    THEN [k \in 1..Len(metadata.links) |->
              [target |-> metadata.links[k].link, type |-> "internal"]]
         \o [k \in 1..Len(metadata.embeds) |->
                 [target |-> metadata.embeds[k].link, type |-> "embed"]]
    ELSE <<>>

\* processNote when vault.read and getFileCache succeed; of the NoteData record the
\* fields title, content, path, tags and links are kept
processNoteData(file) ==
    [title |-> extractTitle(file, file.content),
     content |-> cleanContent(file.content),
     path |-> file.path,
     tags |-> extractTags(file.metadata),
     links |-> extractLinks(file.metadata)]

\* await processNote(file): rejects when vault.read rejects or getFileCache throws
ProcessNoteOutcome(file) ==
    IF file.env # "ok"
    THEN [rejected |-> TRUE, error |-> file.env, notes |-> <<>>]
    ELSE [rejected |-> FALSE, error |-> "", notes |-> <<processNoteData(file)>>]

RECURSIVE processLoopStopOnError(_, _)
processLoopStopOnError(files, results) ==
    \* mutant: the try block encloses the loop, the first error ends it
    IF files = <<>> THEN results
    ELSE Let(ProcessNoteOutcome(Head(files)), LAMBDA r :
             IF r.rejected THEN results
             ELSE processLoopStopOnError(Tail(files), results \o r.notes))

\* for (const file of files) { try { results.push(await processNote(file)) } catch {} }
RECURSIVE processLoop(_, _)
processLoop(files, results) ==
    IF files = <<>> THEN results
    ELSE Let(ProcessNoteOutcome(Head(files)), LAMBDA r :
             processLoop(Tail(files), IF r.rejected THEN results ELSE results \o r.notes))

processMultipleNotes(files) ==
    [rejected |-> FALSE, error |-> "", notes |-> processLoop(files, <<>>)]

NotProcessed == [call |-> "none", rejected |-> FALSE, error |-> "", notes |-> <<>>]

\* noteProcessor.processNote(file)
ProcessNote ==
    /\ noteResults.call = "none"
    /\ Len(noteFiles) = 1
    /\ \E r \in {ProcessNoteOutcome(noteFiles[1])} :
          noteResults' = [call |-> "processNote", rejected |-> r.rejected,
                          error |-> r.error, notes |-> r.notes]
    /\ UNCHANGED <<settings, kgVars, pluginVars, clock, tagVars, timerVars, asyncVars, relNotes,
                   relationships, noteFiles>>

\* noteProcessor.processMultipleNotes(files)
ProcessMultipleNotes ==
    /\ noteResults.call = "none"
    /\ \E r \in {processMultipleNotes(noteFiles)} :
          noteResults' = [call |-> "processMultipleNotes", rejected |-> r.rejected,
                          error |-> r.error, notes |-> r.notes]
    /\ UNCHANGED <<settings, kgVars, pluginVars, clock, tagVars, timerVars, asyncVars, relNotes,
                   relationships, noteFiles>>

\* what the metadata cache holds for a file: nothing, or tags, links, embeds and maybe
\* a frontmatter with a title (empty when missing) and tags (missing, an array of
\* strings and other values, or one string)
NoFrontmatterTags == [kind |-> "undefined", items |-> <<>>, value |-> <<>>]
ArrayOf(items) == [kind |-> "array", items |-> items, value |-> <<>>]
StringOf(value) == [kind |-> "string", items |-> <<>>, value |-> value]
Str(value) == [type |-> "string", value |-> value]
Num == [type |-> "number", value |-> <<>>]
NoFrontmatter == [present |-> FALSE, title |-> <<>>, tags |-> NoFrontmatterTags]
Frontmatter(title, tags) == [present |-> TRUE, title |-> title, tags |-> tags]
NoMetadata ==
    [present |-> FALSE, tags |-> <<>>, frontmatter |-> NoFrontmatter, links |-> <<>>,
     embeds |-> <<>>]
Metadata(tags, frontmatter) ==
    [present |-> TRUE, tags |-> [k \in 1..Len(tags) |-> [tag |-> tags[k]]],
     frontmatter |-> frontmatter, links |-> <<[link |-> "Other"]>>, embeds |-> <<>>]

File(content, metadata, env) ==
    [path |-> "n.md", basename |-> <<"n">>, content |-> content, metadata |-> metadata,
     env |-> env]

\* files that differ in where a title can come from
TitleMetadata ==
    {NoMetadata, Metadata(<<>>, NoFrontmatter),
     Metadata(<<>>, Frontmatter(<<>>, NoFrontmatterTags)),
     Metadata(<<>>, Frontmatter(<<"F", "M">>, NoFrontmatterTags)),
     Metadata(<<>>, Frontmatter(<<" ">>, NoFrontmatterTags))}
TitleContents ==
    {<<"x">>,
     <<"#", " ", "H", "1", "\n", "x">>,
     <<"#", "#", " ", "S", "\n", "#", "t", "\n", "#", " ", "H", "1", " ", "\n", "#", " ", "H", "2">>,
     <<"-", "-", "-", "\n", "t", "i", "t", "l", "e", ":", " ", "F", "M", "\n", "-", "-", "-", "\n", "#", " ", "H", "1">>,
     <<"#", " ", " ", "\n", "#", " ", "H">>,
     <<" ", "#", " ", "T">>}
TitleFiles == {File(content, metadata, "ok") : content \in TitleContents, metadata \in TitleMetadata}

\* files that differ in the tags of the metadata cache
InlineTagLists == {<<>>, <<<<"#", "a">>>>, <<<<"#", "a">>, <<"#", "b">>, <<"#", "a">>>>}
FrontmatterTagValues ==
    {NoFrontmatterTags,
     ArrayOf(<<Str(<<"a">>), Str(<<"a">>), Str(<<"b">>)>>),
     ArrayOf(<<Str(<<"#", "b">>), Num, Str(<<"c">>)>>),
     ArrayOf(<<Str(<<"c", "#">>), Str(<<"c">>)>>),
     StringOf(<<"a">>),
     StringOf(<<>>)}
TagFiles ==
    {File(<<"x">>, Metadata(tags, Frontmatter(<<>>, frontmatterTagValue)), "ok") :
         tags \in InlineTagLists, frontmatterTagValue \in FrontmatterTagValues}

\* files that differ in the markup of the text
MarkupContents ==
    {<<"*", "*", "b", "*", "*", " ", "*", "i", "*">>,
     <<"=", "=", "h", "=", "=", " ", "~", "~", "s", "~", "~">>,
     <<"[", "[", "L", "]", "]", " ", "[", "E", "]", "(", "u", ")">>,
     <<"#", " ", "H", "\n", "\n", "\n", "\n", "#", "#", " ", "S", "\n", "t">>,
     <<"#", "t", "a", "g", " ", "x">>,
     <<"-", "-", "-", "\n", "t", ":", " ", "1", "\n", "-", "-", "-", "\n", "#", " ", "H">>,
     <<"#", " ", "H", "\n", "*", "*", "b", "*", "*", " ", "=", "=", "h", "=", "=", " ", "~", "~", "s", "~", "~", " ", "[", "[", "L", "]", "]", " ", "#", "t">>,
     <<" ", "#", " ", "T">>,
     <<"x">>}
MarkupFiles == {File(content, NoMetadata, "ok") : content \in MarkupContents}

\* files whose processing fails
FailingFiles == {File(<<"x">>, NoMetadata, env) : env \in {"read", "getFileCache"}}

NoteFiles == TitleFiles \cup TagFiles \cup MarkupFiles \cup FailingFiles

\* the lists processMultipleNotes is called with: up to MaxFiles files, the path of a
\* file fixed by its position
BatchFiles ==
    {File(<<"#", " ", "G", "\n", "x">>, NoMetadata, "ok"),
     File(<<"x">>, Metadata(<<<<"#", "a">>>>, NoFrontmatter), "ok"),
     File(<<"x">>, NoMetadata, "read"),
     File(<<"x">>, NoMetadata, "getFileCache")}
FileLists ==
    UNION {{[k \in 1..n |-> [choice[k] EXCEPT !.path = RelationPaths[k]]] :
                choice \in [1..n -> BatchFiles]} : n \in 0..MaxFiles}

----------------------------------------------------------------------------
(* TagManager: related tags *)

RELATED_LIMIT == 10

\* otherTag.notes.filter(note => targetNotes.has(note)).length
overlapOf(targetTag, otherTag) ==
    Len(SelectSeq(otherTag.notes, LAMBDA note : Includes(targetTag.notes, note)))

relatedStrengthMin(targetTag, otherTag) ==
    \* mutant: the overlap is divided by the smaller count
    Fraction(overlapOf(targetTag, otherTag), Min(targetTag.count, otherTag.count))

\* overlap / Math.max(targetTag.count, otherTag.count)
relatedStrength(targetTag, otherTag) ==
    Fraction(overlapOf(targetTag, otherTag), Max(targetTag.count, otherTag.count))

\* for (const [otherTagName, otherTag] of this.tagCache) { ... relatedTags.set(...) }
RECURSIVE relatedLoop(_, _, _)
relatedLoop(cache, targetTag, n) ==
    IF n > Len(cache) THEN <<>>
    ELSE IF cache[n].name = targetTag.name \/ overlapOf(targetTag, cache[n]) = 0
         THEN relatedLoop(cache, targetTag, n + 1)
         ELSE <<[tag |-> cache[n].name, strength |-> relatedStrength(targetTag, cache[n])]>>
                  \o relatedLoop(cache, targetTag, n + 1)

\* Array.prototype.sort((a, b) => b.strength - a.strength), stable
RECURSIVE sortByStrength(_, _)
sortByStrength(list, sorted) ==
    IF list = <<>> THEN sorted
    ELSE Let(Cardinality({n \in 1..Len(sorted) :
                              ~GreaterThan(Head(list).strength, sorted[n].strength)}),
             LAMBDA n :
             sortByStrength(Tail(list),
                            SubSeq(sorted, 1, n) \o <<Head(list)>>
                                \o SubSeq(sorted, n + 1, Len(sorted))))

\* getRelatedTags after its refresh: the answer from the index
getRelatedTags(cache, tagName) ==
    IF ~HasTag(cache, tagName) THEN <<>>
    ELSE Let(cache[CHOOSE n \in 1..Len(cache) : cache[n].name = tagName], LAMBDA targetTag :
         Let(sortByStrength(relatedLoop(cache, targetTag, 1), <<>>), LAMBDA sorted :
             SubSeq(sorted, 1, Min(RELATED_LIMIT, Len(sorted)))))

\* tagManager.getRelatedTags(tagName)
GetRelatedTags(tagName, env) ==
    \E r \in {refreshTagCache(TheTagManager, now, env)} :
        Query("getRelatedTags", r, env,
              [tagName |-> tagName, related |-> getRelatedTags(r.tm.tagCache, tagName)])

\* note contents: "#a #b #c", "#a", "#c #a x", and a note with twelve tags
ThreeTagsNote ==
    <<"#", "a", " ", "#", "b", " ", "#", "c">>
OneTagNote ==
    <<"#", "a">>
TwoTagsNote ==
    <<"#", "c", " ", "#", "a", " ", "x">>
ManyTagsNote ==
    <<"#", "a", " ", "#", "b", " ", "#", "c", " ", "#", "d", " ", "#", "e", " ", "#",
      "f", " ", "#", "g", " ", "#", "h", " ", "#", "i", " ", "#", "j", " ", "#", "k",
      " ", "#", "l">>

RelatedContents == {ThreeTagsNote, OneTagNote, TwoTagsNote, PlainNote}
RelatedVaults ==
    {MkVault(<<c1, c2>>) : c1 \in RelatedContents, c2 \in RelatedContents}
    \cup {MkVault(<<c1, c2, c3>>) :
              c1 \in RelatedContents, c2 \in RelatedContents, c3 \in RelatedContents}
    \cup {MkVault(<<ManyTagsNote, TwoTagsNote>>)}
RelatedTagNames == {<<"a">>, <<"b">>, <<"c">>, <<"z">>}

----------------------------------------------------------------------------
(* Overlapping calls.  An async method runs until its next await and goes  *)
(* on when the awaited promise settles; the steps of the calls in flight    *)
(* interleave at these points.                                              *)

MaxCalls == 3
MaxTasks == 2

NotStarted == [pc |-> "idle", via |-> "none"]

\* initialize(), or publishToKnowledgeGraph() up to its await this.initialize():
\* if (this.initialized) return; else the wallet client is requested
InitializeCall(c, via) ==
    /\ initCalls[c].pc = "idle"
    /\ \A d \in 1..(c - 1) : initCalls[d].pc # "idle"
    /\ initCalls' = [initCalls EXCEPT
                        ![c] = [pc |-> IF initialized THEN "returned" ELSE "awaiting",
                                via |-> via]]
    /\ UNCHANGED <<settings, kgVars, pluginVars, clock, tagVars, timerVars, processorVars,
                   walletCreations, tasks>>

\* getSmartAccountWalletClient settles: the client is stored and initialized set,
\* or the error is logged and thrown again
InitializeResume(c, created) ==
    /\ initCalls[c].pc = "awaiting"
    /\ IF created
       THEN /\ walletClient' = "wallet"
            /\ initialized' = TRUE
            /\ walletCreations' = walletCreations + 1
            /\ initCalls' = [initCalls EXCEPT ![c].pc = "returned"]
       ELSE /\ initCalls' = [initCalls EXCEPT ![c].pc = "thrown"]
            /\ UNCHANGED <<walletClient, initialized, walletCreations>>
    /\ UNCHANGED <<settings, compileVars, pubCalls, pubResult, pubInput, submittedOps,
                   pluginVars, clock, tagVars, timerVars, processorVars, tasks>>

NoTask ==
    [kind |-> "none", pc |-> "idle", k |-> 0, startedAt |-> 0, oldName |-> <<>>,
     newName |-> <<>>, newContent |-> <<>>, scanned |-> FALSE, failed |-> FALSE]

InitAsync ==
    /\ initCalls = [c \in 1..MaxCalls |-> NotStarted]
    /\ walletCreations = 0
    /\ tasks = [t \in 1..MaxTasks |-> NoTask]

CanStart(t) ==
    /\ tasks[t].kind = "none"
    /\ \A u \in 1..(t - 1) : tasks[u].kind # "none"

\* a query calls refreshTagCache: a fresh cache is left alone; a stale one is
\* cleared, the files are listed and the first one is read
RefreshStart(t) ==
    /\ CanStart(t)
    /\ IF now - lastCacheUpdate < CACHE_DURATION /\ Len(tagCache) > 0
       THEN /\ tasks' = [tasks EXCEPT ![t] = [NoTask EXCEPT !.kind = "refresh",
                                                            !.pc = "done"]]
            /\ UNCHANGED <<tagCache, lastCacheUpdate>>
       ELSE /\ tagCache' = <<>>
            /\ IF Len(vault) = 0
               THEN /\ lastCacheUpdate' = now
                    /\ tasks' = [tasks EXCEPT
                                    ![t] = [NoTask EXCEPT !.kind = "refresh", !.pc = "done",
                                                          !.scanned = TRUE,
                                                          !.startedAt = now]]
               ELSE /\ tasks' = [tasks EXCEPT
                                    ![t] = [NoTask EXCEPT !.kind = "refresh", !.pc = "read",
                                                          !.k = 1, !.scanned = TRUE,
                                                          !.startedAt = now]]
                    /\ UNCHANGED lastCacheUpdate
    /\ UNCHANGED <<settings, kgVars, pluginVars, clock, timerVars, processorVars, vault,
                   lastOp, mutCount, lastQuery, lastMutation, initCalls, walletCreations>>

\* vault.read(file) settles in refreshTagCache: the tags of the file are indexed (or
\* the error is logged); then the next file is read, or after the last file
\* lastCacheUpdate is set to the time the refresh started
RefreshRead(t, ok) ==
    /\ tasks[t].kind = "refresh"
    /\ tasks[t].pc = "read"
    /\ \E k \in {tasks[t].k} :
          /\ tagCache' = IF ok
                         THEN addTags(tagCache, extractTagsFromContent(vault[k].content),
                                      vault[k].path)
                         ELSE tagCache
          /\ IF k = Len(vault)
             THEN /\ lastCacheUpdate' = tasks[t].startedAt
                  /\ tasks' = [tasks EXCEPT ![t].pc = "done", ![t].failed = @ \/ ~ok]
             ELSE /\ tasks' = [tasks EXCEPT ![t].k = k + 1, ![t].failed = @ \/ ~ok]
                  /\ UNCHANGED lastCacheUpdate
    /\ UNCHANGED <<settings, kgVars, pluginVars, clock, timerVars, processorVars, vault,
                   lastOp, mutCount, lastQuery, lastMutation, initCalls, walletCreations>>

\* renameTag / deleteTag after the try block of file k: the next file is read, or
\* after the last file the cache is cleared and lastCacheUpdate reset
MutationAdvance(t, failed) ==
    IF tasks[t].k = Len(vault)
    THEN /\ tagCache' = <<>>
         /\ lastCacheUpdate' = 0
         /\ tasks' = [tasks EXCEPT ![t].pc = "done", ![t].failed = @ \/ failed]
    ELSE /\ tasks' = [tasks EXCEPT ![t].pc = "read", ![t].k = @ + 1,
                                   ![t].failed = @ \/ failed]
         /\ UNCHANGED <<tagCache, lastCacheUpdate>>

\* renameTag(oldName, newName) or deleteTag(oldName) is called: the files are listed
\* and the first one is read
MutationStart(t, kind, oldName, newName) ==
    /\ CanStart(t)
    /\ \A u \in 1..MaxTasks : tasks[u].kind \in {"none", "refresh"}
    /\ IF Len(vault) = 0
       THEN /\ tagCache' = <<>>
            /\ lastCacheUpdate' = 0
            /\ tasks' = [tasks EXCEPT
                            ![t] = [NoTask EXCEPT !.kind = kind, !.pc = "done",
                                                  !.oldName = oldName,
                                                  !.newName = newName]]
       ELSE /\ tasks' = [tasks EXCEPT
                            ![t] = [NoTask EXCEPT !.kind = kind, !.pc = "read", !.k = 1,
                                                  !.oldName = oldName,
                                                  !.newName = newName]]
            /\ UNCHANGED <<tagCache, lastCacheUpdate>>
    /\ UNCHANGED <<settings, kgVars, pluginVars, clock, timerVars, processorVars, vault,
                   lastOp, mutCount, lastQuery, lastMutation, initCalls, walletCreations>>

\* vault.read(file) settles in renameTag / deleteTag: a file that carries the tag is
\* rewritten and vault.modify called; any other file, or a failed read, is passed
MutationRead(t, ok) ==
    /\ tasks[t].kind \in {"renameTag", "deleteTag"}
    /\ tasks[t].pc = "read"
    /\ \E content \in {vault[tasks[t].k].content} :
          IF ok /\ Includes(extractTagsFromContent(content), tasks[t].oldName)
          THEN /\ tasks' = [tasks EXCEPT
                               ![t].pc = "modify",
                               ![t].newContent =
                                   IF tasks[t].kind = "renameTag"
                                   THEN renameContent(content, tasks[t].oldName,
                                                      tasks[t].newName)
                                   ELSE deleteContent(content, tasks[t].oldName)]
               /\ UNCHANGED <<tagCache, lastCacheUpdate>>
          ELSE MutationAdvance(t, ~ok)
    /\ UNCHANGED <<settings, kgVars, pluginVars, clock, timerVars, processorVars, vault,
                   lastOp, mutCount, lastQuery, lastMutation, initCalls, walletCreations>>

\* vault.modify(file, newContent) settles in renameTag / deleteTag
MutationModify(t, ok) ==
    /\ tasks[t].kind \in {"renameTag", "deleteTag"}
    /\ tasks[t].pc = "modify"
    /\ vault' = IF ok THEN [vault EXCEPT ![tasks[t].k].content = tasks[t].newContent]
                ELSE vault
    /\ MutationAdvance(t, ~ok)
    /\ UNCHANGED <<settings, kgVars, pluginVars, clock, timerVars, processorVars,
                   lastOp, mutCount, lastQuery, lastMutation, initCalls, walletCreations>>

OverlapVaults ==
    {MkVault(<<InlineNote>>), MkVault(<<InlineNote, InlineNote>>),
     MkVault(<<InlineNote, FrontmatterNote>>)}

----------------------------------------------------------------------------
(* Specifications *)

InitPlugin ==
    /\ statusBar = "KG: Ready"
    /\ notices = NoNotice
    /\ ioLog = <<>>
    /\ lastCommand = [name |-> "none", privateKey |-> "", spaceId |-> "",
                      excludedFolders |-> {}, at |-> 0,
                      statusBar |-> "", lastSyncTimestamp |-> 0]
    /\ statusTrail = <<>>
    /\ lastEnvs = <<>>

InitClock ==
    /\ now = StartTime
    /\ ticks = 0

InitTagManager ==
    /\ tagCache = <<>>
    /\ lastCacheUpdate = 0
    /\ lastOp = NoOperation
    /\ mutCount = 0
    /\ lastQuery = [kind |-> "none", at |-> 0, scanned |-> FALSE, reads |-> <<>>,
                    failed |-> {}, prev |-> NoOperation, refreshedAt |-> 0,
                    result |-> <<>>]
    /\ lastMutation = [kind |-> "none", oldName |-> <<>>, newName |-> <<>>, env |-> <<>>,
                       before |-> <<>>, cached |-> 0, refreshedAt |-> 0,
                       success |-> FALSE, updatedFiles |-> <<>>,
                       reads |-> <<>>, writes |-> <<>>]

InitTimers ==
    /\ timers = {}
    /\ publishTimer = 0
    /\ nextTimerId = 1
    /\ autoLog = <<>>
    /\ lastEvent = "none"

InitProcessor ==
    /\ relNotes = <<>>
    /\ relationships = NotCalled
    /\ noteFiles = <<>>
    /\ noteResults = NotProcessed

InitRest ==
    /\ InitPlugin /\ InitClock /\ InitTagManager /\ InitTimers /\ InitProcessor
    /\ vault = <<>>

InitCompile ==
    /\ settings = DEFAULT_SETTINGS
    /\ InitService
    /\ InitAsync
    /\ InitRest

NextCompile ==
    \/ \E b \in BOOLEAN : SetIncludeTags(b)
    \/ \E b \in BOOLEAN : SetIncludeLinks(b)
    \/ \E noteData \in Notes : Compile(noteData)

SpecCompile == InitCompile /\ [][NextCompile]_vars

\* arguments of publishToKnowledgeGraph: what createKnowledgeEntities returns for a note
PublishNotes == {n \in Notes : \A k \in 1..Len(n.links) : n.links[k] = "Other"}
PublishInputs ==
    {createKnowledgeEntities(n, DEFAULT_SETTINGS,
                             [ops |-> <<>>, next |-> 1, calls |-> NoCalls]) : n \in PublishNotes}

NextPublish ==
    \E compiled \in PublishInputs, env \in PubEnvs : Publish(compiled, env)

SpecPublish == InitCompile /\ [][NextPublish]_vars

InitPluginSpec ==
    /\ settings \in {[DEFAULT_SETTINGS EXCEPT !.privateKey = k, !.spaceId = i] :
                         k \in PrivateKeys, i \in SpaceIds}
    /\ InitService
    /\ InitAsync
    /\ InitRest

NextPlugin ==
    \/ \E key \in PrivateKeys : SetPrivateKey(key)
    \/ \E id \in SpaceIds : SetSpaceId(id)
    \/ \E folders \in ExcludedFolderChoices : SetExcludedFolders(folders)
    \/ \E k \in 1..Len(PluginFiles), env \in NoteEnvs : PublishNote(PluginFiles[k], env)
    \/ \E envs \in [{PluginFiles[k] : k \in 1..Len(PluginFiles)} -> BatchEnvs] :
          PublishAllNotes(envs)
    \/ Tick(1)

SpecPlugin == InitPluginSpec /\ [][NextPlugin]_vars

AutoEnvs == {env \in NoteEnvs : env.fail \in {"none", "processNote"}}

InitAutoPublish ==
    /\ settings = [DEFAULT_SETTINGS EXCEPT !.privateKey = "0xkey", !.spaceId = "space-1"]
    /\ InitService
    /\ InitAsync
    /\ InitRest

NextAutoPublish ==
    \/ \E b \in BOOLEAN : SetAutoPublish(b)
    \/ \E folders \in ExcludedFolderChoices : SetExcludedFolders(folders)
    \/ \E k \in 1..Len(PluginFiles) : OnModify(PluginFiles[k])
    \/ \E k \in 1..Len(PluginFiles) : OnChanged(PluginFiles[k])
    \/ \E env \in AutoEnvs : TimerFire(env)
    \/ \E d \in {PUBLISH_DELAY \div 2, PUBLISH_DELAY} : TimerTick(d)

SpecAutoPublish == InitAutoPublish /\ [][NextAutoPublish]_vars

InitRelations ==
    /\ settings = DEFAULT_SETTINGS
    /\ InitService
    /\ InitAsync
    /\ InitPlugin /\ InitClock /\ InitTagManager /\ InitTimers
    /\ vault = <<>>
    /\ relNotes \in NoteLists
    /\ relationships = NotCalled
    /\ noteFiles = <<>>
    /\ noteResults = NotProcessed

NextRelations == FindNoteRelationships

SpecRelations == InitRelations /\ [][NextRelations]_vars

InitTag(vaults) ==
    /\ settings = DEFAULT_SETTINGS
    /\ InitService
    /\ InitAsync
    /\ InitPlugin
    /\ InitClock
    /\ InitTagManager
    /\ InitTimers
    /\ InitProcessor
    /\ vault \in vaults

InitTagCache == InitTag(CacheVaults)

NextTagCache ==
    \/ \E env \in ReadEnvs(vault) : GetAllTags(env)
    \/ \E env \in MutationEnvs(vault) : RenameTag(<<"a">>, <<"c">>, env)
    \/ \E env \in MutationEnvs(vault) : DeleteTag(<<"a">>, env)
    \/ Tick(CACHE_DURATION \div 2)

SpecTagCache == InitTagCache /\ [][NextTagCache]_vars

InitProcessNote ==
    /\ settings = DEFAULT_SETTINGS
    /\ InitService
    /\ InitAsync
    /\ InitPlugin /\ InitClock /\ InitTagManager /\ InitTimers
    /\ vault = <<>>
    /\ relNotes = <<>>
    /\ relationships = NotCalled
    /\ noteFiles \in {<<file>> : file \in NoteFiles}
    /\ noteResults = NotProcessed

NextProcessNote == ProcessNote

SpecProcessNote == InitProcessNote /\ [][NextProcessNote]_vars

InitProcessMultiple ==
    /\ settings = DEFAULT_SETTINGS
    /\ InitService
    /\ InitAsync
    /\ InitPlugin /\ InitClock /\ InitTagManager /\ InitTimers
    /\ vault = <<>>
    /\ relNotes = <<>>
    /\ relationships = NotCalled
    /\ noteFiles \in FileLists
    /\ noteResults = NotProcessed

NextProcessMultiple == ProcessMultipleNotes

SpecProcessMultiple == InitProcessMultiple /\ [][NextProcessMultiple]_vars

InitRelatedTags == InitTag(RelatedVaults)

NextRelatedTags ==
    \E tagName \in RelatedTagNames, env \in ReadEnvs(vault) : GetRelatedTags(tagName, env)

SpecRelatedTags == InitRelatedTags /\ [][NextRelatedTags]_vars

\* publishNote: the result of the last createKnowledgeEntities call is published
PublishCompiled(env) ==
    /\ compileCount > 0
    /\ Publish([entities |-> entities, relations |-> relations], env)

\* the publish succeeds, or fails before or after the op log is submitted
CompilePublishEnvs ==
    {env \in PubEnvs : /\ env.fail \in {"none", "getSmartAccountWalletClient", "sendTransaction"}
                       /\ env.error # "network unreachable"}

NextCompilePublish ==
    \/ \E noteData \in PublishNotes : Compile(noteData)
    \/ \E env \in CompilePublishEnvs : PublishCompiled(env)

SpecCompilePublish == InitCompile /\ [][NextCompilePublish]_vars

InitInitialize ==
    /\ settings = DEFAULT_SETTINGS
    /\ InitService
    /\ InitAsync
    /\ InitRest

NextInitialize ==
    \/ \E c \in 1..MaxCalls, via \in {"initialize", "publishToKnowledgeGraph"} :
          InitializeCall(c, via)
    \/ \E c \in 1..MaxCalls, created \in BOOLEAN : InitializeResume(c, created)

SpecInitialize == InitInitialize /\ [][NextInitialize]_vars

InitOverlap == InitTag(OverlapVaults)

NextOverlap ==
    \/ \E t \in 1..MaxTasks : RefreshStart(t)
    \/ \E t \in 1..MaxTasks, ok \in BOOLEAN : RefreshRead(t, ok)
    \/ \E t \in 1..MaxTasks : MutationStart(t, "renameTag", <<"a">>, <<"c">>)
    \/ \E t \in 1..MaxTasks : MutationStart(t, "deleteTag", <<"a">>, <<>>)
    \/ \E t \in 1..MaxTasks, ok \in BOOLEAN : MutationRead(t, ok)
    \/ \E t \in 1..MaxTasks, ok \in BOOLEAN : MutationModify(t, ok)

SpecOverlap == InitOverlap /\ [][NextOverlap]_vars

InitTagRewrite == InitTag(Vaults)

NextTagRewrite ==
    \/ \E oldName \in {<<"a">>, <<"b">>}, newName \in {<<"b">>, <<"c">>},
          env \in MutationEnvs(vault) : RenameTag(oldName, newName, env)
    \/ \E tagName \in {<<"a">>, <<"b">>}, env \in MutationEnvs(vault) :
          DeleteTag(tagName, env)

SpecTagRewrite == InitTagRewrite /\ [][NextTagRewrite]_vars

----------------------------------------------------------------------------
(* Properties of createKnowledgeEntities (SpecCompile) *)

\* tags and links the last compilation had to include
IncludedTags == IF lastCompile.includeTags THEN lastCompile.note.tags ELSE <<>>
IncludedLinks == IF lastCompile.includeLinks THEN lastCompile.note.links ELSE <<>>

\* C1: createKnowledgeEntities returns 1 + (included tags) + (included links) entities
\* and (included tags) + (included links) relations, links counted per list entry; with
\* includeTags off there is no 'tag' entity and no 'has-tag' relation, and with
\* includeLinks off no 'link' entity and no 'links-to' relation.
C1_ResultCounts ==
    compileCount > 0 =>
        /\ Len(entities) = 1 + Len(IncludedTags) + Len(IncludedLinks)
        /\ Len(relations) = Len(IncludedTags) + Len(IncludedLinks)
        /\ ~lastCompile.includeTags =>
              /\ \A k \in 1..Len(entities) : entities[k].type # "tag"
              /\ \A k \in 1..Len(relations) : relations[k].type # "has-tag"
        /\ ~lastCompile.includeLinks =>
              /\ \A k \in 1..Len(entities) : entities[k].type # "link"
              /\ \A k \in 1..Len(relations) : relations[k].type # "links-to"

\* a note with tags compiled with includeTags off and a repeated link target
C1_Witness ==
    /\ compileCount > 0
    /\ ~lastCompile.includeTags /\ lastCompile.includeLinks
    /\ Len(lastCompile.note.tags) = 2
    /\ lastCompile.note.links = <<"Other", "Other">>
    /\ Len(entities) = 3 /\ Len(relations) = 2

\* C2: entities[0] is the note entity, then one 'tag' entity per tag in tag order, then
\* one 'link' entity per link in link order; relations[k] runs from entities[0] to
\* entities[k+1] and is 'has-tag' for a tag entity, 'links-to' for a link entity.
C2_ResultOrder ==
    compileCount > 0 =>
        LET T == Len(IncludedTags)
            L == Len(IncludedLinks)
        IN /\ Len(entities) = 1 + T + L
           /\ Len(relations) = T + L
           /\ entities[1].type = "note"
           /\ entities[1].name = lastCompile.note.title
           /\ \A k \in 1..T : /\ entities[1 + k].type = "tag"
                              /\ entities[1 + k].name = IncludedTags[k]
           /\ \A k \in 1..L : /\ entities[1 + T + k].type = "link"
                              /\ entities[1 + T + k].name = IncludedLinks[k]
           /\ \A k \in 1..(T + L) :
                 /\ relations[k].fromEntity = entities[1].id
                 /\ relations[k].toEntity = entities[k + 1].id
                 /\ relations[k].type =
                        (IF entities[k + 1].type = "tag" THEN "has-tag" ELSE "links-to")

\* a compilation that produced tag entities and link entities
C2_Witness ==
    /\ compileCount > 0
    /\ Len(IncludedTags) = 2 /\ Len(IncludedLinks) = 2
    /\ entities[3].type = "tag" /\ entities[4].type = "link"
    /\ relations[2].type = "has-tag" /\ relations[3].type = "links-to"

\* C6: nothing is interned: a compilation with T included tags and L included links
\* issues 5 + T + L property creations, 1 + 2T + 2L type creations, 1 + T + L entity
\* creations and T + L relation creations, on every call, a repeated one included.
C6_NoInterning ==
    compileCount > 0 =>
        LET T == Len(IncludedTags)
            L == Len(IncludedLinks)
            before == lastCompile.callsBefore
        IN /\ graphCalls.property - before.property = 5 + T + L
           /\ graphCalls.type - before.type = 1 + 2 * T + 2 * L
           /\ graphCalls.entity - before.entity = 1 + T + L
           /\ graphCalls.relation - before.relation = T + L

\* the same note compiled a second time under the same toggles, two tags and a link
C6_Witness ==
    /\ compileCount = 2
    /\ lastCompile.repeated
    /\ Len(IncludedTags) = 2 /\ Len(IncludedLinks) = 1
    /\ graphCalls.property = 16 /\ graphCalls.type = 14

----------------------------------------------------------------------------
(* Properties of publishToKnowledgeGraph (SpecPublish) *)

Published == pubResult.status # "none"

IsPrefix(s, t) == Len(s) <= Len(t) /\ \A k \in 1..Len(s) : s[k] = t[k]

\* the external calls of one publish, in the order of the code
StepOrder ==
    (IF pubInput.initialized THEN <<>> ELSE <<"getSmartAccountWalletClient">>)
    \o <<"Ipfs.publishEdit", "fetch", "response.json", "sendTransaction">>

\* the call during which a failure of kind f surfaces
FailingCall(f) == IF f = "response.ok" THEN "fetch" ELSE f

RECURSIVE OpsBefore(_, _)
\* number of ops held by the first i items of a list of entities or relations
OpsBefore(items, i) ==
    IF i = 0 THEN 0 ELSE OpsBefore(items, i - 1) + Len(items[i].ops)

\* C5: the op log handed to the content store is entities[0].ops, entities[1].ops, ...
\* followed by relations[0].ops, relations[1].ops, ...: order kept, nothing dropped or
\* duplicated.
C5_OpLogOrder ==
    (Published /\ \E k \in 1..Len(pubCalls) : pubCalls[k] = "Ipfs.publishEdit") =>
        LET items == pubInput.entities \o pubInput.relations
        IN /\ Len(submittedOps) = OpsBefore(items, Len(items))
           /\ \A i \in 1..Len(items) : \A j \in 1..Len(items[i].ops) :
                 submittedOps[OpsBefore(items, i - 1) + j] = items[i].ops[j]

\* a submitted log that holds entity ops and relation ops
C5_Witness ==
    /\ Published
    /\ pubResult.status = "resolved"
    /\ Len(pubInput.entities) = 4 /\ Len(pubInput.relations) = 3
    /\ Len(submittedOps) = 22


----------------------------------------------------------------------------
\* the last command was publishNote or publishAllNotes and it found the private key
\* or the space id empty
RefusedCommand ==
    /\ lastCommand.name \in {"publishNote", "publishAllNotes"}
    /\ (lastCommand.privateKey = "" \/ lastCommand.spaceId = "")

\* C4: when the private key or the space id is empty, publishNote and
\* publishAllNotes are refused before any I/O: the command reads no note, compiles
\* no entity, makes no content-store, calldata or transaction call (its I/O log is
\* empty), and the status bar text and lastSyncTimestamp are what they were when
\* the command started.
C4_RefusedBeforeIO ==
    RefusedCommand =>
        /\ ioLog = <<>>
        /\ statusBar = lastCommand.statusBar
        /\ settings.lastSyncTimestamp = lastCommand.lastSyncTimestamp

\* a publish-all is refused for its empty space id, after an earlier publish
\* succeeded and a later one failed
C4_Witness ==
    /\ lastCommand.name = "publishAllNotes"
    /\ lastCommand.privateKey # ""
    /\ lastCommand.spaceId = ""
    /\ lastCommand.statusBar = "KG: Error"
    /\ lastCommand.lastSyncTimestamp > 0
    /\ notices.text = "Please configure your space ID in settings"


----------------------------------------------------------------------------
\* C7: for any vault content, two tag-index queries made less than 5 minutes apart
\* with no rename/delete in between cause exactly one vault scan (the first scans,
\* the second is answered from the cache and reads no note), and a query made 5
\* minutes or more after the last refresh scans the whole vault again.
C7_OneScanPerWindow ==
    /\ (/\ lastQuery.kind # "none"
        /\ lastQuery.prev.kind = "query"
        /\ lastQuery.prev.scanned
        /\ lastQuery.at - lastQuery.prev.at < CACHE_DURATION)
       => (~lastQuery.scanned /\ lastQuery.reads = <<>>)
    /\ (/\ lastQuery.kind # "none"
        /\ lastQuery.at - lastQuery.refreshedAt >= CACHE_DURATION)
       => (lastQuery.scanned /\ lastQuery.reads = Paths(vault))

\* the cache lists path under tag exactly when the note was read and its content, as
\* the vault holds it, carries the tag
IndexMatchesVault(cache, files, failed) ==
    /\ \A k \in 1..Len(files) :
          files[k].path \notin failed =>
              \A tags \in {extractTagsFromContent(files[k].content)} :
                  \A n \in 1..Len(tags) :
                      \E e \in 1..Len(cache) :
                          /\ cache[e].name = tags[n]
                          /\ Includes(cache[e].notes, files[k].path)
    /\ \A e \in 1..Len(cache) :
          /\ cache[e].count = Len(cache[e].notes)
          /\ \A m \in 1..Len(cache[e].notes) :
                \E k \in 1..Len(files) :
                    /\ files[k].path = cache[e].notes[m]
                    /\ files[k].path \notin failed
                    /\ Includes(extractTagsFromContent(files[k].content), cache[e].name)

\* C8: renameTag and deleteTag always invalidate the tag cache before they return,
\* whether or not a note was modified or a per-file error occurred: after the call
\* the cache is empty and lastCacheUpdate is 0, and the query that follows it scans
\* the whole vault and returns the index of the contents the mutation left.
C8_MutationInvalidates ==
    /\ lastOp.kind = "mutation" => (tagCache = <<>> /\ lastCacheUpdate = 0)
    /\ (lastOp.kind = "query" /\ lastQuery.prev.kind = "mutation")
       => /\ lastQuery.scanned
          /\ lastQuery.reads = Paths(vault)
          /\ IndexMatchesVault(tagCache, vault, lastQuery.failed)
          /\ {lastQuery.result[n] : n \in 1..Len(lastQuery.result)}
                = {tagCache[n] : n \in 1..Len(tagCache)}

\* a mutation that hit a read error and modified no note found a fresh, filled
\* cache; the query after it, still inside the window, scanned and found tags
C8_Witness ==
    /\ lastOp.kind = "query"
    /\ lastQuery.prev.kind = "mutation"
    /\ lastMutation.cached > 0
    /\ lastQuery.at - lastMutation.refreshedAt < CACHE_DURATION
    /\ lastMutation.updatedFiles = <<>>
    /\ \E k \in 1..Len(vault) : lastMutation.env[k] = "read"
    /\ lastQuery.scanned
    /\ Len(tagCache) > 0

\* the note k of the vault the last mutation found carries the tag it was called with
Carried(k) ==
    Includes(extractTagsFromContent(lastMutation.before[k].content), lastMutation.oldName)

\* paths of the notes of files at the positions that satisfy Keep, in vault order
PathsWhere(files, Keep(_)) ==
    Let(SelectSeq([k \in 1..Len(files) |-> k], Keep), LAMBDA ks :
        [n \in 1..Len(ks) |-> files[ks[n]].path])

ReadAndCarried(k) == lastMutation.env[k] # "read" /\ Carried(k)
UpdatedAndCarried(k) == lastMutation.env[k] = "ok" /\ Carried(k)

\* C9: renameTag and deleteTag write exactly the notes whose extracted tags contain
\* the tag: every note is read, in vault order, also after a failure; vault.modify
\* is called once for each note that was read and carries the tag and for no other;
\* updatedFiles is the paths of the carrying notes read and written without error,
\* in vault order; every other note keeps its content; success is true.
C9_WritesCarriers ==
    lastMutation.kind # "none" =>
        /\ lastMutation.success
        /\ lastMutation.reads = Paths(lastMutation.before)
        /\ lastMutation.writes = PathsWhere(lastMutation.before, ReadAndCarried)
        /\ lastMutation.updatedFiles = PathsWhere(lastMutation.before, UpdatedAndCarried)
        /\ \A k \in 1..Len(vault) :
              ~UpdatedAndCarried(k) => vault[k] = lastMutation.before[k]

\* the write of the first note failed, the second note carries the tag and was
\* written
C9_Witness ==
    /\ lastMutation.kind = "renameTag"
    /\ Len(vault) = 2
    /\ lastMutation.env[1] = "modify"
    /\ Carried(1)
    /\ lastMutation.updatedFiles = <<TagPaths[2]>>
    /\ vault[2] # lastMutation.before[2]

Carries(files, k, tag) == Includes(extractTagsFromContent(files[k].content), tag)

\* C10: after renameTag(old, new) completes with no per-file error, no note carries
\* old and every note that carried old carries new, as the index's own extraction
\* sees it; after deleteTag(tag) completes with no per-file error, no note carries
\* tag.
C10_TagRewritten ==
    /\ (/\ lastMutation.kind = "renameTag"
        /\ lastMutation.oldName # lastMutation.newName
        /\ \A k \in 1..Len(vault) : lastMutation.env[k] = "ok")
       => \A k \in 1..Len(vault) :
             /\ ~Carries(vault, k, lastMutation.oldName)
             /\ Carried(k) => Carries(vault, k, lastMutation.newName)
    /\ (/\ lastMutation.kind = "deleteTag"
        /\ \A k \in 1..Len(vault) : lastMutation.env[k] = "ok")
       => \A k \in 1..Len(vault) : ~Carries(vault, k, lastMutation.oldName)


----------------------------------------------------------------------------
\* the last command was publishAllNotes and it found both required settings
BatchRan ==
    /\ lastCommand.name = "publishAllNotes"
    /\ lastCommand.privateKey # ""
    /\ lastCommand.spaceId # ""

\* the vault's notes outside the folders excluded when the last command started
NotExcluded ==
    SelectSeq(PluginFiles,
              LAMBDA file : \A folder \in lastCommand.excludedFolders :
                                ~StartsWith(file, folder))

\* positions of the I/O log at which a note's processing starts
ProcessStarts == {j \in 1..Len(ioLog) : ioLog[j].call = "processNote"}

\* the files whose processing the last command started, in the order of the I/O log
AttemptedFiles ==
    Let(SelectSeq(ioLog, LAMBDA entry : entry.call = "processNote"), LAMBDA starts :
        [k \in 1..Len(starts) |-> starts[k].file])

\* the call a note's publish ends with, given the outcome of its awaited calls; the
\* wallet client is only requested while the service is not initialised
FinalCalls(env) ==
    CASE env.fail \in {"none", "saveSettings"} -> {"saveSettings"}
      [] env.fail = "getSmartAccountWalletClient" ->
             {"getSmartAccountWalletClient", "saveSettings"}
      [] env.fail = "response.ok" -> {"fetch"}
      [] OTHER -> {env.fail}

----------------------------------------------------------------------------
\* the number of notes of the last command whose processing, compilation and
\* publication all succeeded: 'KG: Ready' is set right after publishToKnowledgeGraph
\* resolves
ReadyCount == Len(SelectSeq(statusTrail, LAMBDA text : text = "KG: Ready"))

\* C12: when publishAllNotes finishes, the published count of its tally is the number
\* of notes whose processing, compilation and publication all succeeded, the error
\* count is the number of notes for which one of them failed, and published + errors
\* is the number of non-excluded notes.
C12_TallySeparatesFailures ==
    BatchRan =>
        /\ notices.published = ReadyCount
        /\ notices.errors = Len(AttemptedFiles) - ReadyCount
        /\ notices.published + notices.errors = Len(NotExcluded)


----------------------------------------------------------------------------
\* the last command was publishNote and it found both required settings
SingleRan ==
    /\ lastCommand.name = "publishNote"
    /\ lastCommand.privateKey # ""
    /\ lastCommand.spaceId # ""

\* C13: publishNote never rejects and leaves a consistent outcome: it ends with the
\* status bar set to 'KG: Ready' or 'KG: Error'; if processing, compilation or
\* publication failed the status bar ends as 'KG: Error' and lastSyncTimestamp keeps
\* its value; if all three succeeded the status bar went through 'KG: Publishing...'
\* and ends as 'KG: Ready' and lastSyncTimestamp is the completion time.
C13_ConsistentOutcome ==
    SingleRan =>
        /\ Len(statusTrail) >= 2
        /\ statusTrail[1] = "KG: Publishing..."
        /\ ReadyCount = 0 =>
              /\ statusBar = "KG: Error"
              /\ settings.lastSyncTimestamp = lastCommand.lastSyncTimestamp
        /\ ReadyCount > 0 =>
              /\ statusBar = "KG: Ready"
              /\ statusTrail[Len(statusTrail)] = "KG: Ready"
              /\ settings.lastSyncTimestamp = lastCommand.at


----------------------------------------------------------------------------
Triggers == {j \in 1..Len(autoLog) : autoLog[j].kind = "trigger"}
Publishes == {i \in 1..Len(autoLog) : autoLog[i].kind = "publish"}

\* the last trigger before position i of the log, 0 when there is none
TriggerBefore(i) == LastIndex({j \in Triggers : j < i})

\* C14: auto-publish debounce.  In a burst of triggers, each less than 5 seconds
\* after the one before it, no publish fires between two triggers; a publish fired
\* by a timer is for the file of the last trigger before it, starts 5 seconds after
\* that trigger and is the only publish that follows it; while a trigger is the last
\* event its publish is pending and not overdue.
C14_Debounce ==
    /\ \A j \in Triggers, k \in Triggers :
          (j < k /\ autoLog[k].at - autoLog[j].at < PUBLISH_DELAY)
              => \A i \in Publishes : ~(j < i /\ i < k)
    /\ \A i \in Publishes :
          /\ TriggerBefore(i) # 0
          /\ \A j \in {TriggerBefore(i)} :
                j # 0 =>
                    /\ autoLog[i].file = autoLog[j].file
                    /\ autoLog[i].at = autoLog[j].at + PUBLISH_DELAY
                    /\ \A h \in Publishes : h # i => TriggerBefore(h) # j
    /\ (autoLog # <<>> /\ autoLog[Len(autoLog)].kind = "trigger")
          => /\ \E x \in timers :
                   /\ x.file = autoLog[Len(autoLog)].file
                   /\ x.fireAt = autoLog[Len(autoLog)].at + PUBLISH_DELAY
             /\ Cardinality(timers) = 1
             /\ now <= autoLog[Len(autoLog)].at + PUBLISH_DELAY

\* a burst of three triggers, 2.5 seconds apart at most, ended with one publish, of
\* the file of the last trigger, 5 seconds after it
C14_Witness ==
    /\ Len(autoLog) = 4
    /\ \A j \in 1..3 : autoLog[j].kind = "trigger"
    /\ autoLog[3].at - autoLog[1].at = PUBLISH_DELAY \div 2
    /\ autoLog[3].file # autoLog[1].file
    /\ autoLog[4].kind = "publish"
    /\ autoLog[4].file = autoLog[3].file
    /\ autoLog[4].at = autoLog[3].at + PUBLISH_DELAY
    /\ timers = {}


----------------------------------------------------------------------------
\* the last trigger for file in the log, 0 when there is none
LastTriggerOf(file) == LastIndex({j \in Triggers : autoLog[j].file = file})

\* C15: debounce coalescing is per note: a pending scheduled publish of a note is
\* cancelled only by a newer trigger for the same note, so for every note that was
\* triggered, the publish of its last trigger either has fired or is still pending
\* with its own deadline; notes A and B modified within one window are both published.
C15_DebouncePerNote ==
    \A k \in 1..Len(PluginFiles) :
        \A j \in {LastTriggerOf(PluginFiles[k])} :
            j # 0 =>
                \/ \E i \in Publishes : i > j /\ autoLog[i].file = PluginFiles[k]
                \/ \E x \in timers :
                      /\ x.file = PluginFiles[k]
                      /\ x.fireAt = autoLog[j].at + PUBLISH_DELAY

\* the files of the processNote calls of the last publishNote
PublishedExcluded ==
    \E j \in ProcessStarts :
        \E folder \in lastCommand.excludedFolders : StartsWith(ioLog[j].file, folder)

\* C17: a note whose path starts with a configured excluded-folder prefix is never
\* published by any publish path: no command, whether publish-all, publishNote for
\* the current note or the auto-publish timer, processes a note under a folder that
\* was excluded when the command started.
C17_ExcludedNeverPublished == ~PublishedExcluded


----------------------------------------------------------------------------
\* file appears in a call of the last command's I/O log
Touched(file) == \E j \in 1..Len(ioLog) : ioLog[j].file = file

\* C16: publishAllNotes attempts exactly the vault notes whose path does not start
\* with any configured excluded-folder prefix: a note under an excluded prefix is
\* never read or published by it, and every other note is attempted.
C16_ExcludedFilter ==
    BatchRan =>
        \A k \in 1..Len(PluginFiles) :
            Touched(PluginFiles[k]) <=>
                ~\E folder \in lastCommand.excludedFolders :
                      /\ Len(folder) <= Len(PluginFiles[k])
                      /\ SubSeq(PluginFiles[k], 1, Len(folder)) = folder

\* a batch with "p/" excluded reads n.md only
C16_Witness ==
    /\ BatchRan
    /\ lastCommand.excludedFolders = {<<"p", "/">>}
    /\ Touched(NotePath)
    /\ ~Touched(PrivatePath)
    /\ notices.published = 1


----------------------------------------------------------------------------
\* position in the list of the note with this path
PositionOf(path) == FirstIndex({k \in 1..Len(relNotes) : relNotes[k].path = path})

\* positions of the returned edges of one kind between the notes at i and j
EdgesOf(i, j, type) ==
    {e \in 1..Len(relationships.edges) :
        /\ relationships.edges[e].type = type
        /\ {relationships.edges[e].source, relationships.edges[e].target}
               = {relNotes[i].path, relNotes[j].path}}

LinksTo(note, other) == other.title \in {note.links[l].target : l \in 1..Len(note.links)}

\* C18: findNoteRelationships compares each unordered pair of list positions exactly
\* once: no edge goes from a position to itself, a pair has at most one edge of each
\* kind, and the source is the path of the earlier note. A pair has a 'direct-link'
\* edge, of strength 1.0, if and only if one of the two notes has a link whose target
\* is the other note's title, and it has only one such edge when both link to each
\* other.
C18_PairsOnce ==
    relationships.called =>
        /\ \A e \in 1..Len(relationships.edges) :
              /\ PositionOf(relationships.edges[e].source) >= 1
              /\ PositionOf(relationships.edges[e].source)
                     < PositionOf(relationships.edges[e].target)
              /\ relationships.edges[e].type = "direct-link"
                     => relationships.edges[e].strength = One
        /\ \A i \in 1..Len(relNotes) : \A j \in (i + 1)..Len(relNotes) :
              /\ \A type \in {"direct-link", "shared-tags", "content-similarity"} :
                    Cardinality(EdgesOf(i, j, type)) <= 1
              /\ EdgesOf(i, j, "direct-link") # {}
                     <=> (LinksTo(relNotes[i], relNotes[j]) \/ LinksTo(relNotes[j], relNotes[i]))

\* three notes, the first two linking to each other, the third linked by none: one
\* direct-link edge, from the first note to the second
C18_Witness ==
    /\ relationships.called
    /\ Len(relNotes) = 3
    /\ LinksTo(relNotes[1], relNotes[2]) /\ LinksTo(relNotes[2], relNotes[1])
    /\ ~LinksTo(relNotes[1], relNotes[3]) /\ ~LinksTo(relNotes[3], relNotes[1])
    /\ Cardinality(EdgesOf(1, 2, "direct-link")) = 1
    /\ EdgesOf(1, 3, "direct-link") = {}
    /\ \E e \in EdgesOf(1, 2, "direct-link") :
          /\ relationships.edges[e].source = relNotes[1].path
          /\ relationships.edges[e].target = relNotes[2].path

TagSet(note) == {note.tags[k] : k \in 1..Len(note.tags)}

\* C19: two notes get a 'shared-tags' edge if and only if their tag sets T1 and T2
\* intersect; its strength is |T1 \cap T2| / max(|T1|, |T2|), greater than 0, at most
\* 1, and 1 exactly when T1 = T2.
C19_SharedTagsStrength ==
    relationships.called =>
        \A i \in 1..Len(relNotes) : \A j \in (i + 1)..Len(relNotes) :
            /\ EdgesOf(i, j, "shared-tags") # {}
                   <=> TagSet(relNotes[i]) \cap TagSet(relNotes[j]) # {}
            /\ \A e \in EdgesOf(i, j, "shared-tags") :
                  \A strength \in {relationships.edges[e].strength} :
                      /\ strength.den > 0
                      /\ strength.num
                             * Max(Cardinality(TagSet(relNotes[i])),
                                   Cardinality(TagSet(relNotes[j])))
                           = Cardinality(TagSet(relNotes[i]) \cap TagSet(relNotes[j]))
                               * strength.den
                      /\ 0 < strength.num
                      /\ strength.num <= strength.den
                      /\ strength.num = strength.den
                             <=> TagSet(relNotes[i]) = TagSet(relNotes[j])

\* tags {x, y} and {y, z} give strength 1/2, tags [x, y] and [y, x] give strength 1,
\* tags {x, y} and {z} give no edge
C19_Witness ==
    /\ relationships.called
    /\ Len(relNotes) = 3
    /\ relNotes[1].tags = <<"x", "y">>
    /\ relNotes[2].tags = <<"y", "z">>
    /\ relNotes[3].tags = <<"z">>
    /\ \E e \in EdgesOf(1, 2, "shared-tags") :
          relationships.edges[e].strength = Fraction(1, 2)
    /\ EdgesOf(1, 3, "shared-tags") = {}
    /\ \E e \in EdgesOf(2, 3, "shared-tags") :
          relationships.edges[e].strength = Fraction(1, 2)


----------------------------------------------------------------------------
\* the last operation was a query that rebuilt the tag index
Refreshed == lastOp.kind = "query" /\ lastQuery.scanned

\* the notes the refresh could read
ReadNotes == {k \in 1..Len(vault) : vault[k].path \notin lastQuery.failed}

\* the hashtags and frontmatter tags of a note, one entry per occurrence
TagOccurrences(content) == hashtagExec(content, 1, <<>>) \o frontmatterTags(content)

\* how often x occurs in the list s
CountIn(s, x) == Cardinality({n \in 1..Len(s) : s[n] = x})

\* C20 as stated: after a refresh a tag's count is the total number of its occurrences
\* across all notes, and a tag that occurs k times in a note has k entries of that
\* note's path in its notes list.
C20_CountsOccurrences ==
    Refreshed =>
        \A e \in 1..Len(tagCache) :
            /\ tagCache[e].count
                   = Cardinality(UNION {{<<k, n>> :
                                            n \in {m \in 1..Len(TagOccurrences(vault[k].content)) :
                                                      TagOccurrences(vault[k].content)[m]
                                                          = tagCache[e].name}} :
                                        k \in ReadNotes})
            /\ \A k \in ReadNotes :
                  CountIn(tagCache[e].notes, vault[k].path)
                      = CountIn(TagOccurrences(vault[k].content), tagCache[e].name)

\* C20 as the code has it: after a refresh a tag's count is the number of notes that
\* carry the tag, however often it occurs in a note, and the tag's notes list holds
\* the path of each of these notes once.
C20_CountsNotes ==
    Refreshed =>
        \A e \in 1..Len(tagCache) :
            /\ tagCache[e].count
                   = Cardinality({k \in ReadNotes :
                                     CountIn(TagOccurrences(vault[k].content),
                                             tagCache[e].name) > 0})
            /\ tagCache[e].count = Len(tagCache[e].notes)
            /\ \A k \in ReadNotes :
                  CountIn(tagCache[e].notes, vault[k].path)
                      = IF CountIn(TagOccurrences(vault[k].content), tagCache[e].name) > 0
                        THEN 1 ELSE 0

\* a refresh read a note in which a tag occurs twice and counted the tag once
C20_Witness ==
    /\ Refreshed
    /\ \E e \in 1..Len(tagCache) : \E k \in ReadNotes :
          /\ CountIn(TagOccurrences(vault[k].content), tagCache[e].name) = 2
          /\ tagCache[e].count = 1
          /\ tagCache[e].notes = <<vault[k].path>>


----------------------------------------------------------------------------
(* Properties of getRelatedTags (SpecRelatedTags) *)

RelatedAnswered == lastQuery.kind = "getRelatedTags"

\* the index entry of a tag, and the notes listed under it
EntryOf(tag) == tagCache[CHOOSE n \in 1..Len(tagCache) : tagCache[n].name = tag]
NotesOf(tag) == {EntryOf(tag).notes[m] : m \in 1..Len(EntryOf(tag).notes)}

\* the other tags of the index that share a note with tag
Sharing(tag) ==
    {tagCache[n].name : n \in {m \in 1..Len(tagCache) :
                                    /\ tagCache[m].name # tag
                                    /\ NotesOf(tagCache[m].name) \cap NotesOf(tag) # {}}}

\* strength is shared / max(count(t), count(u))
IsStrengthOf(strength, t, u) ==
    /\ strength.den > 0
    /\ strength.num * Max(EntryOf(t).count, EntryOf(u).count)
           = Cardinality(NotesOf(t) \cap NotesOf(u)) * strength.den

\* C21: getRelatedTags(t) returns, for the other tags that share a note with t, the
\* pair (tag, strength) with strength = shared notes / max(count(t), count(other)): t
\* is not in the answer, no tag without a shared note is, no tag is twice, the answer
\* is sorted by strength descending and holds the 10 strongest at most, and every
\* strength is greater than 0 and at most 1. For a tag not in the index the answer is
\* empty.
C21_RelatedTags ==
    RelatedAnswered =>
        \A t \in {lastQuery.result.tagName} : \A R \in {lastQuery.result.related} :
            IF ~HasTag(tagCache, t) THEN R = <<>>
            ELSE /\ \A n \in 1..Len(R) :
                       /\ R[n].tag \in Sharing(t)
                       /\ IsStrengthOf(R[n].strength, t, R[n].tag)
                       /\ 0 < R[n].strength.num
                       /\ R[n].strength.num <= R[n].strength.den
                       /\ \A m \in (n + 1)..Len(R) :
                             /\ R[m].tag # R[n].tag
                             /\ R[m].strength.num * R[n].strength.den
                                    <= R[n].strength.num * R[m].strength.den
                 /\ Len(R) = Min(10, Cardinality(Sharing(t)))
                 /\ \A u \in Sharing(t) \ {R[n].tag : n \in 1..Len(R)} :
                       \A n \in 1..Len(R) :
                           Cardinality(NotesOf(t) \cap NotesOf(u)) * R[n].strength.den
                               <= R[n].strength.num
                                      * Max(EntryOf(t).count, EntryOf(u).count)

\* eleven tags share a note with the tag asked for: the answer holds ten of them, the
\* strongest first, and leaves out one of the weakest
C21_Witness ==
    /\ RelatedAnswered
    /\ HasTag(tagCache, lastQuery.result.tagName)
    /\ Cardinality(Sharing(lastQuery.result.tagName)) = 11
    /\ Len(lastQuery.result.related) = 10
    /\ lastQuery.result.related[1].strength = One
    /\ lastQuery.result.related[10].strength = Fraction(1, 2)


----------------------------------------------------------------------------
(* Properties of processNote (SpecProcessNote) *)

\* processNote was called on the file and returned a note
Processed == noteResults.call = "processNote" /\ ~noteResults.rejected

\* the title the metadata cache holds in the frontmatter of the file, empty if none
TitleInFrontmatter ==
    IF noteFiles[1].metadata.present /\ noteFiles[1].metadata.frontmatter.present
    THEN noteFiles[1].metadata.frontmatter.title
    ELSE <<>>

\* the lines of the raw text that are level-1 headings: "# " and a text
HeadingLines ==
    Let(Split(noteFiles[1].content, "\n"), LAMBDA lines :
        SelectSeq(lines, LAMBDA line : Len(line) >= 3 /\ line[1] = "#" /\ line[2] = " "))

\* C22: the title is the frontmatter title whenever that is present and non-empty,
\* even if the text has a level-1 heading; otherwise it is the text of the first
\* level-1 heading line of the raw text; otherwise, and only then, it is the file name.
C22_TitlePrecedence ==
    Processed =>
        noteResults.notes[1].title
            = IF TitleInFrontmatter # <<>> THEN TitleInFrontmatter
              ELSE IF HeadingLines # <<>>
                   THEN Trim(SubSeq(HeadingLines[1], 3, Len(HeadingLines[1])))
                   ELSE noteFiles[1].basename

\* a file with a frontmatter title whose text has level-1 headings gets the
\* frontmatter title
C22_Witness ==
    /\ Processed
    /\ TitleInFrontmatter = <<"F", "M">>
    /\ Len(HeadingLines) = 2
    /\ noteResults.notes[1].title = <<"F", "M">>

\* the tag strings of the metadata cache: inline tags and frontmatter tags
InputTags ==
    Let(noteFiles[1].metadata, LAMBDA metadata :
        IF ~metadata.present THEN {}
        ELSE {metadata.tags[k].tag : k \in 1..Len(metadata.tags)}
             \cup (IF ~metadata.frontmatter.present THEN {}
                   ELSE {metadata.frontmatter.tags.items[k].value :
                             k \in {n \in 1..Len(metadata.frontmatter.tags.items) :
                                       metadata.frontmatter.tags.items[n].type = "string"}}
                        \cup (IF metadata.frontmatter.tags.kind = "string"
                              THEN {metadata.frontmatter.tags.value} \ {<<>>}
                              ELSE {})))

\* a tag without its leading '#'
WithoutPrefix(tag) == IF tag # <<>> /\ tag[1] = "#" THEN Tail(tag) ELSE tag

\* C23: the extracted tags are the duplicate-free union of the inline tags and the
\* frontmatter tags with the leading '#' stripped: no tag is twice in the result and
\* the result holds exactly the input tags, whatever their order and multiplicity.
C23_TagUnion ==
    Processed =>
        /\ \A j, k \in 1..Len(noteResults.notes[1].tags) :
              noteResults.notes[1].tags[j] = noteResults.notes[1].tags[k] => j = k
        /\ {noteResults.notes[1].tags[k] : k \in 1..Len(noteResults.notes[1].tags)}
               = {WithoutPrefix(tag) : tag \in InputTags}


\* the literal pat occurs somewhere in s
Contains(s, pat) == \E i \in 1..Len(s) : MatchAt(s, i, pat)

\* one to six # and white space at the start of a line of s
HeadingMarkerAt(s, i) ==
    /\ i = 1 \/ s[i - 1] = "\n"
    /\ \E n \in 1..6 :
          /\ i + n <= Len(s)
          /\ \A k \in 0..(n - 1) : s[i + k] = "#"
          /\ s[i + n] \in Whitespace

\* a # followed by a character of a tag
HashtagAt(s, i) == i < Len(s) /\ s[i] = "#" /\ s[i + 1] \in WordChars \cup {"-"}

\* C26: for a note in which each markup construct occurs singly and not overlapping,
\* the cleaned content holds no '**', '==', '~~', '[[' or ']]', no heading marker at
\* the start of a line and no inline '#tag', and it is the result of the steps
\* frontmatter, wiki links, markdown links, heading markers, emphasis markers,
\* hashtags, newline collapse and trim, each applied to the result of the one before.
C26_CleanContent ==
    Processed =>
        \A cleaned \in {noteResults.notes[1].content} :
            /\ ~Contains(cleaned, <<"*", "*">>)
            /\ ~Contains(cleaned, <<"=", "=">>)
            /\ ~Contains(cleaned, <<"~", "~">>)
            /\ ~Contains(cleaned, <<"[", "[">>)
            /\ ~Contains(cleaned, <<"]", "]">>)
            /\ \A i \in 1..Len(cleaned) :
                  ~HeadingMarkerAt(cleaned, i) /\ ~HashtagAt(cleaned, i)
            /\ cleaned
                   = Trim(collapseNewlines(
                         removeHashtags(
                             unwrapStrikethrough(unwrapHighlight(unwrapItalic(unwrapBold(
                                 removeHeadingMarkers(
                                     replaceMarkdownLinks(
                                         unwrapWikiLinks(
                                             removeFrontmatter(noteFiles[1].content)),
                                         1), 1))))), 1), 1))

----------------------------------------------------------------------------
(* Properties of processMultipleNotes (SpecProcessMultiple) *)

BatchProcessed == noteResults.call = "processMultipleNotes"

\* the files of the list whose read and processing succeed
Readable == SelectSeq(noteFiles, LAMBDA file : file.env = "ok")

\* C24: processMultipleNotes never rejects and returns exactly the notes of the files
\* whose processing succeeded, in input order: a file whose read or processing failed
\* is skipped and the files after it are still processed.
C24_BatchIsolation ==
    BatchProcessed =>
        /\ ~noteResults.rejected
        /\ Len(noteResults.notes) = Len(Readable)
        /\ \A k \in 1..Len(Readable) :
              /\ noteResults.notes[k].path = Readable[k].path
              /\ noteResults.notes[k] = processNoteData(Readable[k])

\* three files, the read of the second fails: the first and the third are returned
C24_Witness ==
    /\ BatchProcessed
    /\ Len(noteFiles) = 3
    /\ noteFiles[1].env = "ok" /\ noteFiles[2].env = "read" /\ noteFiles[3].env = "ok"
    /\ Len(noteResults.notes) = 2
    /\ noteResults.notes[1].path = noteFiles[1].path
    /\ noteResults.notes[2].path = noteFiles[3].path


----------------------------------------------------------------------------
(* Properties of overlapping initialize calls (SpecInitialize) *)

\* C25: across any number of initialize() calls, direct or through
\* publishToKnowledgeGraph, one after the other or overlapping at the await, the
\* wallet client is created at most once; as long as no creation has succeeded the
\* service stays uninitialised, so that a later call tries again.
C25_WalletOnce ==
    /\ walletCreations <= 1
    /\ walletCreations = 0 => ~initialized /\ walletClient = "undefined"


----------------------------------------------------------------------------
(* Properties of overlapping TagManager calls (SpecOverlap) *)

\* the paths of the notes of files whose content carries tag
CarriersOf(files, tag) ==
    {files[k].path : k \in {n \in 1..Len(files) :
                                Includes(extractTagsFromContent(files[n].content), tag)}}

\* every entry of cache counts the notes of files that carry its tag, each path once
CountsEachNoteOnce(cache, files) ==
    \A e \in 1..Len(cache) :
        /\ cache[e].count = Cardinality(CarriersOf(files, cache[e].name))
        /\ Len(cache[e].notes) = Cardinality({cache[e].notes[m] : m \in 1..Len(cache[e].notes)})
        /\ {cache[e].notes[m] : m \in 1..Len(cache[e].notes)} = CarriersOf(files, cache[e].name)

\* every tag carried by a note of files has an entry in cache
IndexesEveryTag(cache, files) ==
    \A k \in 1..Len(files) :
        \A tags \in {extractTagsFromContent(files[k].content)} :
            \A n \in 1..Len(tags) : HasTag(cache, tags[n])

AllDone == \A t \in 1..MaxTasks : tasks[t].pc = "done" /\ ~tasks[t].failed

Scans == {t \in 1..MaxTasks : tasks[t].kind = "refresh" /\ tasks[t].scanned}
Rewrites == {t \in 1..MaxTasks : tasks[t].kind \in {"renameTag", "deleteTag"}}

\* C28: when queries that started while the cache was stale have run their refreshes
\* interleaved at the per-note reads and all have completed, every tag's count is the
\* number of notes that contain it and no note path is listed twice under a tag.
C28_OverlappingRefreshes ==
    AllDone /\ Scans = 1..MaxTasks => CountsEachNoteOnce(tagCache, vault)

\* C29: when a refresh and a renameTag or deleteTag call have overlapped and both have
\* completed, the cache is invalid (empty, or its timestamp reset) or it is the index
\* of the whole vault as the mutation left it.
C29_RefreshWithMutation ==
    AllDone /\ Rewrites # {} /\ Scans \cup Rewrites = 1..MaxTasks =>
        \/ tagCache = <<>>
        \/ lastCacheUpdate = 0
        \/ CountsEachNoteOnce(tagCache, vault) /\ IndexesEveryTag(tagCache, vault)


----------------------------------------------------------------------------
(* Properties of publishing a compilation (SpecCompilePublish) *)

\* the last publishToKnowledgeGraph call was given the result of the last
\* createKnowledgeEntities call and reached the content store
PublishedLastCompile ==
    /\ Published
    /\ compileCount > 0
    /\ pubInput.entities = entities
    /\ pubInput.relations = relations
    /\ \E k \in 1..Len(pubCalls) : pubCalls[k] = "Ipfs.publishEdit"

\* C27: when the result of one createKnowledgeEntities call is published, the submitted
\* op log holds exactly the ops the compiler appended to its shared log, each once,
\* and every op comes after the ops that create what it refers to: a type after its
\* properties, an entity after its type and properties, a relation after its relation
\* type and after the two entities it connects.
C27_OpLogRefinement ==
    PublishedLastCompile =>
        /\ Len(submittedOps) = Len(opLog)
        /\ \A k \in 1..Len(opLog) :
              Cardinality({j \in 1..Len(submittedOps) : submittedOps[j] = opLog[k]}) = 1
        /\ \A j \in 1..Len(submittedOps) :
              \A r \in 1..Len(submittedOps[j].refs) :
                  \E i \in 1..(j - 1) : submittedOps[i].id = submittedOps[j].refs[r]

\* a note with two tags and a link is compiled and published: the submitted log
\* holds the 22 ops of the compiler's log in another order
C27_Witness ==
    /\ PublishedLastCompile
    /\ pubResult.status = "resolved"
    /\ Len(entities) = 4 /\ Len(relations) = 3
    /\ Len(submittedOps) = 22
    /\ submittedOps # opLog
    /\ submittedOps[22].op = "createRelation"


----------------------------------------------------------------------------
(* Frame of renameTag and deleteTag (SpecTagRewrite) *)

\* the tags carried by some note of files
TagsOf(files) ==
    UNION {{tags[n] : n \in 1..Len(tags)} :
              tags \in {extractTagsFromContent(files[k].content) : k \in 1..Len(files)}}

\* C30: renameTag(old, new) and deleteTag(old) affect only the tag old: every other
\* tag, such as old-x or old/x, is carried by the same notes before and after the
\* call, apart from the notes that gain new in a rename.
C30_OtherTagsUntouched ==
    lastMutation.kind # "none" =>
        \A u \in TagsOf(lastMutation.before) \cup TagsOf(vault) :
            (u # lastMutation.oldName
                /\ ~(lastMutation.kind = "renameTag" /\ u = lastMutation.newName)) =>
                CarriersOf(lastMutation.before, u) = CarriersOf(vault, u)

====
